---- MODULE Spec2Model ----
(***************************************************************************)
(* CogBench v2: constraint selection (constraints/registry.py), batch      *)
(* evaluation (evaluation/evaluate.py) and metric aggregation              *)
(* (evaluation/metrics.py).                                                *)
(*                                                                         *)
(* Conventions                                                             *)
(*  - a constraint_id is the sequence of its characters (<<"R","1">> is    *)
(*    "R1"), so that str.endswith is computed and not tabulated;           *)
(*  - a score is an integer number of hundredths (0.5 is 50);              *)
(*  - a value returned by round(x, 4) is an integer number of              *)
(*    ten-thousandths (0.3333 is 3333);                                    *)
(*  - a rule's check() is a function of the record's texts.  The texts are *)
(*    not modelled; a generation carries instead, for every rule that can  *)
(*    be selected for it, the outcome the rule's check() has on its texts  *)
(*    (field "outcomes"), drawn from the outcomes the rule's code can      *)
(*    return, or a raised exception.                                       *)
(***************************************************************************)
EXTENDS Integers, Sequences, FiniteSets, TLC

VARIABLES
    generations,   \* the "generations" list of the generations file
    pc,            \* position of evaluate_generations / of its caller
    i,             \* number of generations the loop has processed
    evaluated,     \* evaluate_generations: the list `evaluated`
    n_pass,        \* evaluate_generations: the counter `n_pass`
    checks,        \* per processed generation, the ids of the rules whose check() was called
    saved,         \* the evaluation file written by evaluate_generations ("none" before)
    metrics,       \* the dict returned by compute_metrics ("none" before)
    std_evals,     \* cmd_leaderboard: the evaluated records of the standard run
    adv_evals,     \* cmd_leaderboard: the evaluated records of the adversarial run
    std_metrics,   \* compute_metrics(std_evals) ("none" before)
    adv_metrics,   \* compute_metrics(adv_evals) ("none" before)
    gap_data,      \* compute_adversarial_gap(std_metrics, adv_metrics) ("none" before)
    frames,        \* per caller, the locals of its call of _bootstrap_ci
    ci_results,    \* the (values, bounds) pairs that calls of _bootstrap_ci returned
    n_calls,       \* number of calls of _bootstrap_ci so far
    _nli_model,    \* semantic.py global: the model (NoModel for None)
    _nli_tokenizer, \* semantic.py global: the tokenizer (0 for None, else its number)
    loads,         \* how many tokenizers and models from_pretrained has returned
    nli_calls,     \* the calls of the semantic rules' check(), in order
    sem_input,     \* the record evaluate_question is working on
    sem_k,         \* the position of evaluate_question in the rule list
    sem_results,   \* the results of evaluate_question so far
    n_records,     \* number of records evaluate_question was called for
    backend,       \* the NLI backend: "up", or "down" when every call of it raises
    rule_data,     \* the QuestionData given to a rule's check()
    rule_result,   \* the ConstraintResult that came back (<<>> before)
    built,         \* the QuestionData that evaluate_question built, in order
    gen_mode,      \* generate_for_model: its mode
    gen_todo,      \* generate_for_model: the (passage, level) pairs its loops still visit
    gen_file,      \* generate_for_model: the records of the file found at save_path
    gen_calls,     \* generate_for_model: the visits that _call_llm was called for
    heap,          \* the list objects of the registry, then those get_constraints made
    reg_calls,     \* the calls of get_constraints: level, mode, list returned, its ids
    nli_frames     \* per worker, its position in get_nli_model and what it got from it

\* evaluate_generations and its caller (pc apart)
runVars == <<generations, i, evaluated, n_pass, checks, saved, metrics, built>>

\* the adversarial gap analysis
gapVars == <<std_evals, adv_evals, std_metrics, adv_metrics, gap_data>>

\* the calls of _bootstrap_ci
bootVars == <<frames, ci_results, n_calls>>

\* the semantic rules and their model
nliVars == <<_nli_model, _nli_tokenizer, loads, nli_calls, sem_input, sem_k, sem_results,
             n_records, backend>>

\* a rule's check() on its own
ruleVars == <<rule_data, rule_result>>

\* generate_for_model
genVars == <<gen_mode, gen_todo, gen_file, gen_calls>>

\* the registry and the callers of get_constraints
regVars == <<heap, reg_calls>>

\* the workers that call get_nli_model at the same time
workerVars == <<nli_frames>>

\* what the gap analysis, the bootstrap calls, the semantic rules, a rule on its own,
\* the generation of a file, the evaluation of a file leave alone
outsideGap == <<runVars, bootVars, nliVars, ruleVars, genVars, regVars, workerVars>>
outsideBoot == <<pc, runVars, gapVars, nliVars, ruleVars, genVars, regVars, workerVars>>
outsideNli == <<runVars, gapVars, bootVars, ruleVars, genVars, regVars, workerVars>>
outsideRule == <<runVars, gapVars, bootVars, nliVars, genVars, regVars, workerVars>>
outsideGen == <<gapVars, bootVars, nliVars, ruleVars, regVars, workerVars>>
outsideRun == <<outsideGen, genVars>>
outsideReg == <<runVars, gapVars, bootVars, nliVars, ruleVars, genVars, workerVars>>
outsideWorkers == <<runVars, gapVars, bootVars, ruleVars, genVars, regVars>>

vars == <<pc, runVars, gapVars, bootVars, nliVars, ruleVars, genVars, regVars, workerVars>>

(***************************************************************************)
(* Bounds                                                                  *)
(***************************************************************************)
MaxGens == 1       \* generations per file, every kind of generation
MaxBatch == 3      \* generations per file, representative generations
MaxTen == 10       \* generations per file, two kinds of generation
MaxGap == 2        \* evaluations per file in the gap analysis
MaxBootstrap == 3  \* resamples of a bootstrap
MaxObs == 3        \* observations in a call of _bootstrap_ci
MaxCalls == 2      \* calls of _bootstrap_ci
MaxRecords == 2    \* records evaluated with the semantic rules
MaxConcepts == 3   \* key concepts of a passage
MaxStems == 4      \* distinct stems, distinct trigrams of an answer
MaxPassages == 1   \* passages of the corpus
MaxResume == 2     \* records of the file that a generation resumes from
MaxRegCalls == 2   \* calls of get_constraints
MaxWorkerCalls == 2 \* calls of get_nli_model by a worker

(***************************************************************************)
(* config.py                                                               *)
(***************************************************************************)
BLOOM_LEVELS == 1 .. 6

ADVERSARIAL_PAIRINGS == << <<2, 1>>, <<3, 2>>, <<4, 1>>, <<5, 2>>, <<6, 3>>, <<1, 4>> >>

\* Optional[int] = None for vocab_level
NoLevel == 0

\* Python's None where a string is expected (gen.get("question"))
NoneStr == "None"

Modes == {"standard", "adversarial"}

(***************************************************************************)
(* Sequence helpers                                                        *)
(***************************************************************************)
Range(s) == {s[k] : k \in 1 .. Len(s)}

RECURSIVE SumSeq(_)
SumSeq(s) == IF s = <<>> THEN 0 ELSE Head(s) + SumSeq(Tail(s))

\* number of True in a list of booleans: sum(passes)
RECURSIVE CountTrue(_)
CountTrue(s) == IF s = <<>> THEN 0 ELSE (IF Head(s) THEN 1 ELSE 0) + CountTrue(Tail(s))

\* s1 + s2 + ... for a sequence of sequences
RECURSIVE Flatten(_)
Flatten(ss) == IF ss = <<>> THEN <<>> ELSE Head(ss) \o Flatten(Tail(ss))

(***************************************************************************)
(* constraints/*.py: the rules (id, tier) and the per-level lists          *)
(***************************************************************************)
Rule(a, b, t) == [constraint_id |-> <<a, b>>, tier |-> t]

UNIVERSAL_CONSTRAINTS ==
    << Rule("U", "1", "universal"), Rule("U", "2", "universal"),
       Rule("U", "3", "universal"), Rule("U", "4", "universal") >>

REMEMBER_CONSTRAINTS ==
    << Rule("R", "1", "structural"), Rule("R", "2", "structural"),
       Rule("R", "3", "structural"), Rule("R", "4", "structural") >>

UNDERSTAND_CONSTRAINTS ==
    << Rule("D", "1", "structural"), Rule("D", "2", "structural"),
       Rule("D", "4", "structural") >>

APPLY_CONSTRAINTS ==
    << Rule("P", "1", "structural"), Rule("P", "3", "structural"),
       Rule("P", "4", "structural") >>

ANALYZE_CONSTRAINTS ==
    << Rule("A", "1", "structural"), Rule("A", "2", "structural"),
       Rule("A", "3", "structural"), Rule("A", "4", "structural") >>

EVALUATE_CONSTRAINTS ==
    << Rule("E", "1", "structural"), Rule("E", "2", "structural"),
       Rule("E", "3", "structural"), Rule("E", "4", "structural") >>

CREATE_CONSTRAINTS ==
    << Rule("C", "1", "structural"), Rule("C", "3", "structural"),
       Rule("C", "4", "structural") >>

UnderstandSupported == Rule("D", "3", "semantic")
ApplyNewScenario == Rule("P", "2", "semantic")
CreateNovel == Rule("C", "2", "semantic")

ADVERSARIAL_CONSTRAINTS ==
    << Rule("A", "V", "adversarial"), Rule("A", "N", "adversarial") >>

\* a registry that forgets the semantic rule of level 3
LEVEL_CONSTRAINTS_NoP2(level) ==
    CASE level = 1 -> REMEMBER_CONSTRAINTS
      [] level = 2 -> UNDERSTAND_CONSTRAINTS \o <<UnderstandSupported>>
      [] level = 3 -> APPLY_CONSTRAINTS
      [] level = 4 -> ANALYZE_CONSTRAINTS
      [] level = 5 -> EVALUATE_CONSTRAINTS
      [] level = 6 -> CREATE_CONSTRAINTS \o <<CreateNovel>>
      [] OTHER -> <<>>

\* LEVEL_CONSTRAINTS.get(level, [])
LEVEL_CONSTRAINTS(level) ==
    CASE level = 1 -> REMEMBER_CONSTRAINTS
      [] level = 2 -> UNDERSTAND_CONSTRAINTS \o <<UnderstandSupported>>
      [] level = 3 -> APPLY_CONSTRAINTS \o <<ApplyNewScenario>>
      [] level = 4 -> ANALYZE_CONSTRAINTS
      [] level = 5 -> EVALUATE_CONSTRAINTS
      [] level = 6 -> CREATE_CONSTRAINTS \o <<CreateNovel>>
      [] OTHER -> <<>>

\* str.endswith for a one-character suffix
endswith(id, ch) == Len(id) > 0 /\ id[Len(id)] = ch

\* the adversarial branch keeps the vocabulary rule
get_constraints_KeepVocab(level, mode) ==
    LET level_specific == LEVEL_CONSTRAINTS(level) IN
    CASE mode = "standard" -> UNIVERSAL_CONSTRAINTS \o level_specific
      [] mode = "adversarial" ->
            UNIVERSAL_CONSTRAINTS \o level_specific \o ADVERSARIAL_CONSTRAINTS
      [] OTHER -> UNIVERSAL_CONSTRAINTS

\* the adversarial branch drops every rule whose id ends with "1" or "2"
get_constraints_DropMore(level, mode) ==
    LET level_specific == LEVEL_CONSTRAINTS(level)
        kept(c) == ~(endswith(c.constraint_id, "1") \/ endswith(c.constraint_id, "2"))
    IN  CASE mode = "standard" -> UNIVERSAL_CONSTRAINTS \o level_specific
          [] mode = "adversarial" ->
                UNIVERSAL_CONSTRAINTS \o SelectSeq(level_specific, kept)
                    \o ADVERSARIAL_CONSTRAINTS
          [] OTHER -> UNIVERSAL_CONSTRAINTS

get_constraints(level, mode) ==
    LET level_specific == LEVEL_CONSTRAINTS(level)
        kept(c) == ~(endswith(c.constraint_id, "1") /\ c.tier = "structural")
    IN  CASE mode = "standard" -> UNIVERSAL_CONSTRAINTS \o level_specific
          [] mode = "adversarial" ->
                UNIVERSAL_CONSTRAINTS \o SelectSeq(level_specific, kept)
                    \o ADVERSARIAL_CONSTRAINTS
          [] OTHER -> UNIVERSAL_CONSTRAINTS

get_all_constraint_ids(level, mode) ==
    [k \in 1 .. Len(get_constraints(level, mode)) |->
        get_constraints(level, mode)[k].constraint_id]

(***************************************************************************)
(* constraints/base.py: ConstraintResult, and what a check() can return.   *)
(* Res is Constraint._result without the constraint's own id and tier,     *)
(* which run_rule adds.  The rationale (details) is kept by its kind:      *)
(* "skipped", "NLI error: ", "reason".                                     *)
(***************************************************************************)
Res(passed, score, details) ==
    [raises |-> FALSE, passed |-> passed, score |-> score, details |-> details]

\* check() raising an exception instead of returning
Raises == [raises |-> TRUE, passed |-> FALSE, score |-> 0, details |-> "exception"]

Pass == Res(TRUE, 100, "reason")
Skipped == Res(TRUE, 100, "skipped")
Fail == Res(FALSE, 0, "reason")

\* floor(100 * num / den): num / den as a score in hundredths
Ratio(num, den) == (100 * num) \div den

\* U1: "?" ending, task starter, response ending, question word, else fail
IsQuestion_check ==
    {Pass, Res(TRUE, 80, "reason"), Res(TRUE, 70, "reason"), Res(TRUE, 60, "reason"), Fail}

\* U2 on a question of n_words words
WordCount_check(n_words, target_level) ==
    LET min_words == IF target_level = 1 THEN 5 ELSE 10 IN
    IF n_words < min_words THEN Res(FALSE, Ratio(n_words, min_words), "reason")
    ELSE IF n_words > 150 THEN Res(FALSE, Ratio(150, n_words), "reason")
    ELSE Pass

\* U3 with n_found of the key concepts found (has_concepts: key_concepts not empty)
PassageRelevance_check(has_concepts, n_found, target_level) ==
    LET min_terms == IF target_level = 1 THEN 1 ELSE 2 IN
    IF ~has_concepts THEN Skipped
    ELSE Res(n_found >= min_terms,
             IF n_found >= min_terms THEN 100 ELSE Ratio(n_found, min_terms),
             "reason")

\* U4: empty or short text fails with 0, a word repeated count > 3 times with 3 / count
NoDegenerateOutput_check == {Pass, Fail, Res(FALSE, Ratio(3, 4), "reason"), Res(FALSE, Ratio(3, 9), "reason")}

\* R1, D1, P1, A1: Bloom verb, natural pattern, neither
Vocabulary_check == {Pass, Res(TRUE, 90, "reason"), Fail}

\* E1, C1, D4, P4, A3, E2, E3, E4: marker found or not
Marker_check == {Pass, Fail}

\* R2: at most MAX_CONCEPTS = 2 concepts, else 2 / n
RememberSingleConcept_check ==
    {Skipped, Pass, Res(FALSE, Ratio(2, 4), "reason"), Res(FALSE, Ratio(2, 6), "reason")}

\* R3: answer of at most 20 words, else 20 / n_words
RememberShortAnswer_check ==
    {Pass, Res(FALSE, Ratio(20, 21), "reason"), Res(FALSE, Ratio(20, 50), "reason")}

\* R4: score is the overlap, passed iff overlap >= 0.60
RememberExtractable_check ==
    {Skipped, Pass, Res(TRUE, 60, "reason"), Res(FALSE, 59, "reason"), Fail}

\* D2: score is 1 - trigram_overlap, passed iff trigram_overlap < 0.70
UnderstandNotCopied_check ==
    {Skipped, Pass, Res(TRUE, 31, "reason"), Res(FALSE, 30, "reason"), Fail}

\* P3: concept or method found, 20% vocabulary overlap, nothing to compare, none
ApplyMethodReference_check == {Pass, Res(TRUE, 80, "reason"), Skipped, Fail}

\* A2: score min(n / 2, 1), passed iff n >= 2
AnalyzeMultipleConcepts_check == {Skipped, Pass, Res(FALSE, Ratio(1, 2), "reason"), Fail}

\* A4: score is the coverage, passed iff nothing is missing
AnalyzeAnswerCoverage_check ==
    {Skipped, Pass, Res(FALSE, Ratio(1, 2), "reason"), Res(FALSE, Ratio(2, 3), "reason"), Fail}

\* C3: score min(n / 2, 1), passed iff n >= 2
CreateSpecifications_check == {Pass, Res(FALSE, Ratio(1, 2), "reason"), Fail}

\* C4: score min(n_words / 50, 1), passed iff n_words > 50
CreateSubstantialAnswer_check ==
    {Pass, Res(FALSE, Ratio(50, 50), "reason"), Res(FALSE, Ratio(25, 50), "reason"), Fail}

\* D3: score 1 - contradiction, passed iff contradiction < 0.50; NLI failure caught
UnderstandSupported_check ==
    {Skipped, Res(FALSE, 0, "NLI error: "), Pass, Res(TRUE, 51, "reason"),
     Res(FALSE, 50, "reason"), Fail}

\* P2: score non_entailment, passed iff non_entailment >= 0.55; NLI failure caught
ApplyNewScenario_check ==
    {Skipped, Res(FALSE, 0, "NLI error: "), Pass, Res(TRUE, 55, "reason"),
     Res(FALSE, 54, "reason"), Fail}

\* C2: score non_entailment, passed iff non_entailment >= 0.60; NLI failure caught
CreateNovel_check ==
    {Skipped, Res(FALSE, 0, "NLI error: "), Pass, Res(TRUE, 60, "reason"),
     Res(FALSE, 59, "reason"), Fail}

\* AV: skipped outside adversarial mode or without vocab_level, else verb found or not
AdversarialVocabulary_check(mode, vocab_level) ==
    IF mode # "adversarial" \/ vocab_level = NoLevel THEN {Skipped} ELSE {Pass, Fail}

\* AN: skipped outside adversarial mode; a target verb found is a soft failure
AdversarialNoTargetVocab_check(mode) ==
    IF mode # "adversarial" THEN {Skipped} ELSE {Pass, Res(FALSE, 50, "reason")}

\* word counts of the questions considered (around the limits 5, 10 and 150)
WordCounts == {0, 3, 4, 5, 9, 10, 150, 151, 400}

\* everything c.check(data) can return for a rule, over the texts of a record
CheckResults(c, target_level, mode, vocab_level) ==
    LET id == c.constraint_id IN
    CASE id = <<"U", "1">> -> IsQuestion_check
      [] id = <<"U", "2">> -> {WordCount_check(n, target_level) : n \in WordCounts}
      [] id = <<"U", "3">> ->
            {PassageRelevance_check(h, n, target_level) : h \in BOOLEAN, n \in 0 .. 2}
      [] id = <<"U", "4">> -> NoDegenerateOutput_check
      [] id \in {<<"R", "1">>, <<"D", "1">>, <<"P", "1">>, <<"A", "1">>} -> Vocabulary_check
      [] id \in {<<"E", "1">>, <<"C", "1">>, <<"D", "4">>, <<"P", "4">>, <<"A", "3">>,
                 <<"E", "2">>, <<"E", "3">>, <<"E", "4">>} -> Marker_check
      [] id = <<"R", "2">> -> RememberSingleConcept_check
      [] id = <<"R", "3">> -> RememberShortAnswer_check
      [] id = <<"R", "4">> -> RememberExtractable_check
      [] id = <<"D", "2">> -> UnderstandNotCopied_check
      [] id = <<"D", "3">> -> UnderstandSupported_check
      [] id = <<"P", "2">> -> ApplyNewScenario_check
      [] id = <<"P", "3">> -> ApplyMethodReference_check
      [] id = <<"A", "2">> -> AnalyzeMultipleConcepts_check
      [] id = <<"A", "4">> -> AnalyzeAnswerCoverage_check
      [] id = <<"C", "2">> -> CreateNovel_check
      [] id = <<"C", "3">> -> CreateSpecifications_check
      [] id = <<"C", "4">> -> CreateSubstantialAnswer_check
      [] id = <<"A", "V">> -> AdversarialVocabulary_check(mode, vocab_level)
      [] id = <<"A", "N">> -> AdversarialNoTargetVocab_check(mode)

\* the outcome of calling c.check(data): a result, or an exception
CheckOutcomes(c, target_level, mode, vocab_level) ==
    CheckResults(c, target_level, mode, vocab_level) \cup {Raises}

(***************************************************************************)
(* generation/generate.py: the generation records of a generations file    *)
(***************************************************************************)
\* generation/prompts.py: the vocab_level paired with a target level, or None
RECURSIVE pairing_from(_, _)
pairing_from(k, target_level) ==
    IF k > Len(ADVERSARIAL_PAIRINGS) THEN NoLevel
    ELSE IF ADVERSARIAL_PAIRINGS[k][1] = target_level THEN ADVERSARIAL_PAIRINGS[k][2]
         ELSE pairing_from(k + 1, target_level)

get_adversarial_pairing(target_level) == pairing_from(1, target_level)

\* the rules that any selection for the level is drawn from
RulesOf(level) ==
    Range(UNIVERSAL_CONSTRAINTS) \cup Range(LEVEL_CONSTRAINTS(level))
        \cup Range(ADVERSARIAL_CONSTRAINTS)

\* texts on which every rule returns its full pass
Nominal(level, mode, vocab_level) ==
    [c \in RulesOf(level) |->
        IF Pass \in CheckResults(c, level, mode, vocab_level) THEN Pass ELSE Skipped]

\* what the rules return on an empty question: U1 "Empty question", U2 with 0 words,
\* U4 "Empty output"
OnEmpty(level, mode, vocab_level) ==
    [c \in RulesOf(level) |->
        IF c.constraint_id \in {<<"U", "1">>, <<"U", "4">>} THEN Fail
        ELSE IF c.constraint_id = <<"U", "2">> THEN WordCount_check(0, level)
        ELSE Nominal(level, mode, vocab_level)[c]]

\* the texts considered for a record: every rule at its full pass, one rule with any
\* of its outcomes (an exception included) and the others at their full pass, or
\* every rule raising
Behaviours(level, mode, vocab_level) ==
    {Nominal(level, mode, vocab_level)}
    \cup UNION {{[Nominal(level, mode, vocab_level) EXCEPT ![c] = o] :
                    o \in CheckOutcomes(c, level, mode, vocab_level)} :
                c \in RulesOf(level)}
    \cup {[c \in RulesOf(level) |-> Raises]}

\* generate_for_model looking the pairing up in standard mode too
VocabOf_AlwaysPaired(level, mode) == get_adversarial_pairing(level)

\* generate_for_model: vocab_level is None in standard mode, the pairing otherwise
VocabOf(level, mode) == IF mode = "standard" THEN NoLevel ELSE get_adversarial_pairing(level)

\* the record generate_for_model appends for (passage, level) in a mode
Generation(passage_id, subject, level, mode, question, outcomes) ==
    [passage_id |-> passage_id, subject |-> subject, level |-> level, mode |-> mode,
     vocab_level |-> VocabOf(level, mode), question |-> question, outcomes |-> outcomes]

\* extract_qa found no question (None), or the file holds an empty one
NoQuestion == {"", NoneStr}

\* every kind of generation: each level and mode, a question extracted or not
AllGens ==
    UNION {
        {Generation("p1", "biology", level, mode, "Q", b) :
            b \in Behaviours(level, mode, VocabOf(level, mode))}
        \cup
        {Generation("p1", "biology", level, mode, q, OnEmpty(level, mode, VocabOf(level, mode))) :
            q \in NoQuestion}
        : level \in BLOOM_LEVELS, mode \in Modes}

\* the nominal texts of (level, mode) with rule <<a, b>> returning o instead
With(level, mode, a, b, o) ==
    [c \in RulesOf(level) |->
        IF c.constraint_id = <<a, b>> THEN o ELSE Nominal(level, mode, VocabOf(level, mode))[c]]

\* representative generations for batches: full passes, a failed generation, a hard
\* failure, soft failures (failed with score >= 0.5), a low-score pass, an exception
SampleGens ==
    { Generation("p1", "biology", 1, "standard", "Q", Nominal(1, "standard", NoLevel)),
      Generation("p2", "physics", 4, "adversarial", "Q",
                 Nominal(4, "adversarial", VocabOf(4, "adversarial"))),
      Generation("p1", "biology", 2, "standard", NoneStr, OnEmpty(2, "standard", NoLevel)),
      Generation("p2", "physics", 1, "standard", "Q", With(1, "standard", "R", "1", Fail)),
      Generation("p2", "physics", 4, "adversarial", "Q",
                 With(4, "adversarial", "A", "N", Res(FALSE, 50, "reason"))),
      Generation("p1", "biology", 2, "standard", "Q",
                 With(2, "standard", "D", "2", Res(TRUE, 31, "reason"))),
      Generation("p1", "biology", 3, "standard", "Q", With(3, "standard", "P", "2", Raises)) }

\* two generations for long batches: a full pass, and a strict failure that is a
\* loose pass
TenGens ==
    { Generation("p1", "biology", 1, "standard", "Q", Nominal(1, "standard", NoLevel)),
      Generation("p2", "physics", 4, "adversarial", "Q",
                 With(4, "adversarial", "A", "N", Res(FALSE, 50, "reason"))) }

\* the sequences over S of length at most n
SeqsUpTo(S, n) == UNION {[1 .. k -> S] : k \in 0 .. n}

(***************************************************************************)
(* evaluation/evaluate.py                                                  *)
(***************************************************************************)
\* not x, for a question
Falsy(x) == x \in {"", NoneStr}

\* ConstraintResult of rule c from what its check() did: Constraint._result for a
\* returned result, the except branch of evaluate_question for an exception
ResultOf(c, o) ==
    IF o.raises
    THEN [id |-> c.constraint_id, passed |-> FALSE, score |-> 0,
          details |-> "Error: ", tier |-> c.tier]
    ELSE [id |-> c.constraint_id, passed |-> o.passed, score |-> o.score,
          details |-> o.details, tier |-> c.tier]

\* index of the first rule of cs that raises, Len(cs) + 1 when none does
RECURSIVE FirstRaise(_, _, _)
FirstRaise(cs, outcomes, k) ==
    IF k > Len(cs) THEN k
    ELSE IF outcomes[cs[k]].raises THEN k ELSE FirstRaise(cs, outcomes, k + 1)

\* evaluate_question without the try/except: the first exception leaves the function
evaluate_question_NoCatch(level, mode, outcomes) ==
    LET constraints == get_constraints(level, mode)
        stop == FirstRaise(constraints, outcomes, 1)
    IN  [raised |-> stop <= Len(constraints),
         called |-> SubSeq(constraints, 1, IF stop <= Len(constraints) THEN stop ELSE Len(constraints)),
         results |-> [k \in 1 .. (stop - 1) |-> ResultOf(constraints[k], outcomes[constraints[k]])]]

\* evaluate_question on a record whose texts give `outcomes`: the results, the rules
\* whose check() was called, and whether an exception left the function
evaluate_question(level, mode, outcomes) ==
    LET constraints == get_constraints(level, mode) IN
    [raised |-> FALSE,
     called |-> constraints,
     results |-> [k \in 1 .. Len(constraints) |->
                    ResultOf(constraints[k], outcomes[constraints[k]])]]

\* round(num / den, 4) in ten-thousandths (round half to even)
Round4(num, den) ==
    LET q == (10000 * num) \div den
        r == (10000 * num) % den
    IN  IF 2 * r < den THEN q
        ELSE IF 2 * r > den THEN q + 1
        ELSE IF q % 2 = 0 THEN q ELSE q + 1

\* all(r.passed for r in results)
AllPassed(results) == \A k \in 1 .. Len(results) : results[k].passed

\* sum(r.passed for r in results)
NumPassed(results) == Cardinality({k \in 1 .. Len(results) : results[k].passed})

\* the evaluated record: **gen plus the evaluation ("" for no evaluation_error key)
Evaluated(gen, constraints, all_passed, pass_rate, evaluation_error) ==
    [passage_id |-> gen.passage_id, subject |-> gen.subject, level |-> gen.level,
     mode |-> gen.mode, vocab_level |-> gen.vocab_level, question |-> gen.question,
     constraints |-> constraints, all_passed |-> all_passed, pass_rate |-> pass_rate,
     evaluation_error |-> evaluation_error]

\* evaluate_question lines 30-41 called as in evaluate_generations lines 110-117: the
\* QuestionData of a generation (level, mode and vocab_level of the record)
QuestionData(gen) ==
    [question |-> gen.question, target_level |-> gen.level, mode |-> gen.mode,
     vocab_level |-> gen.vocab_level]

\* the loop body without the test of gen.get("question")
evaluate_generation_NoShortCircuit(gen) ==
    LET e == evaluate_question(gen.level, gen.mode, gen.outcomes) IN
    [raised |-> e.raised, called |-> e.called,
     record |-> Evaluated(gen, e.results, AllPassed(e.results),
                          IF e.results = <<>> THEN 0
                          ELSE Round4(NumPassed(e.results), Len(e.results)), "")]

\* the loop body of evaluate_generations for one generation
evaluate_generation(gen) ==
    IF Falsy(gen.question)
    THEN [raised |-> FALSE, called |-> <<>>,
          record |-> Evaluated(gen, <<>>, FALSE, 0, "No question generated")]
    ELSE LET e == evaluate_question(gen.level, gen.mode, gen.outcomes) IN
         [raised |-> e.raised, called |-> e.called,
          record |-> Evaluated(gen, e.results, AllPassed(e.results),
                               IF e.results = <<>> THEN 0
                               ELSE Round4(NumPassed(e.results), Len(e.results)), "")]

(***************************************************************************)
(* evaluation/metrics.py: _bootstrap_ci.  The observations are booleans    *)
(* (1.0 and 0.0 once in the array).  numpy's generator is modelled as a    *)
(* linear congruential generator: its stream is a function of the seed it  *)
(* was created with, as numpy's is.  A mean of resampled observations is   *)
(* kept as the number of ones drawn; a bound is the exact fraction         *)
(* <<num, den>>.                                                           *)
(***************************************************************************)
SEED == 42

\* CONFIDENCE_LEVEL = 0.95, in hundredths
CONFIDENCE_LEVEL == 95

\* the n_bootstrap argument, never given by the callers: BOOTSTRAP_N resamples
\* (1000 in config.py), bounded here
BOOTSTRAP_N == MaxBootstrap

\* np.random.RandomState(seed): the state of a new generator
RandomState(seed) == seed % 32749

\* 75^j modulo 32749
RECURSIVE Power(_)
Power(j) ==
    IF j = 0 THEN 1
    ELSE CHOOSE p \in {(((half * half) % 32749) * (IF j % 2 = 0 THEN 1 ELSE 75)) % 32749 :
                          half \in {Power(j \div 2)}} : TRUE

\* the state of a generator after j more draws, each draw taking state to
\* (75 * state + 74) % 32749
AdvanceBy(state, j) == (Power(j) * (state + 1) + 32748) % 32749

\* rng.choice(arr, size=k, replace=True) summed: the generator after the k draws, and
\* the number of ones drawn (a draw is taken from the high bits of the state)
choice(state, arr, k) ==
    [rng |-> AdvanceBy(state, k),
     ones |-> Cardinality({j \in 1 .. k :
                              arr[((AdvanceBy(state, j) \div 64) % Len(arr)) + 1]})]

\* one iteration of the loop: sample = rng.choice(arr, size=len(arr), replace=True)
Resample(state, arr) == choice(state, arr, Len(arr))

\* boot_means after n iterations of the loop, from a generator in `state`
boot_means_from(state, arr, n) ==
    [b \in 1 .. n |-> Resample(AdvanceBy(state, (b - 1) * Len(arr)), arr).ones]

\* sorted(boot_means)[k], k counted from 0
SortedAt(boot_means, k) ==
    CHOOSE v \in Range(boot_means) :
        /\ Cardinality({j \in DOMAIN boot_means : boot_means[j] < v}) <= k
        /\ Cardinality({j \in DOMAIN boot_means : boot_means[j] <= v}) > k

\* np.percentile(boot_means, q) with q = permille / 10, by linear interpolation
\* between the two nearest ranks; in thousandths of a number of ones
percentile(boot_means, permille) ==
    LET pos == permille * (Len(boot_means) - 1)
        lo == pos \div 1000
        fr == pos % 1000
        hi == IF fr = 0 THEN lo ELSE lo + 1
    IN  1000 * SortedAt(boot_means, lo)
            + fr * (SortedAt(boot_means, hi) - SortedAt(boot_means, lo))

\* alpha = (1 - confidence) / 2, per mille
alpha == ((100 - CONFIDENCE_LEVEL) * 10) \div 2

\* the two percentiles of boot_means, as fractions of the n observations
Bounds(boot_means, n) ==
    [ci_low |-> <<percentile(boot_means, alpha), 1000 * n>>,
     ci_high |-> <<percentile(boot_means, 1000 - alpha), 1000 * n>>]

\* the early return answering (0.0, 0.0) whatever the observation
Collapsed_Zero(values) == [ci_low |-> <<0, 1>>, ci_high |-> <<0, 1>>]

\* the early return for fewer than 2 values: (mean, mean)
Collapsed(values) ==
    LET mean == IF values # <<>> THEN <<IF values[1] THEN 1 ELSE 0, 1>> ELSE <<0, 1>>
    IN  [ci_low |-> mean, ci_high |-> mean]

\* the resampling of arr = np.array(values, dtype=float)
Resampled(arr) ==
    Bounds(boot_means_from(RandomState(SEED), arr, BOOTSTRAP_N), Len(arr))

\* the list is turned into the array once, before the loop
_bootstrap_ci(values) ==
    IF Len(values) < 2 THEN Collapsed(values)
    ELSE CHOOSE bounds \in {Resampled(arr) : arr \in {values}} : TRUE

\* round(ci, 4) of a bound
RoundCi(ci) == CHOOSE rounded \in {Round4(bound[1], bound[2]) : bound \in {ci}} : TRUE

(***************************************************************************)
(* evaluation/metrics.py.  A rate is round(x, 4), in ten-thousandths.  The *)
(* dict {} is the function with the empty domain.                          *)
(***************************************************************************)
\* c.get("score", 0) >= 0.5
LooseOk(c) == c.score >= 50

\* e passes loosely: all(c.get("score", 0) >= 0.5 for c in e.get("constraints", []))
LoosePass(e) == \A k \in 1 .. Len(e.constraints) : LooseOk(e.constraints[k])

\* _prompt_level whose loose branch reads the passed flags
_prompt_level_LooseByFlag(evaluations, loose) ==
    LET n_total == Len(evaluations)
        passes == [k \in 1 .. n_total |->
                     IF loose
                     THEN \A j \in 1 .. Len(evaluations[k].constraints) :
                              evaluations[k].constraints[j].passed
                     ELSE evaluations[k].all_passed]
    IN  IF n_total = 0 THEN [rate |-> 0, n |-> 0, ci_low |-> 0, ci_high |-> 0]
        ELSE [rate |-> Round4(CountTrue(passes), n_total), n |-> n_total,
              n_pass |-> CountTrue(passes),
              ci_low |-> RoundCi(_bootstrap_ci(passes).ci_low),
              ci_high |-> RoundCi(_bootstrap_ci(passes).ci_high)]

\* _prompt_level that applies the loose criterion whatever `loose` is
_prompt_level_AlwaysLoose(evaluations, loose) ==
    LET n_total == Len(evaluations)
        passes == [k \in 1 .. n_total |-> LoosePass(evaluations[k])]
    IN  IF n_total = 0 THEN [rate |-> 0, n |-> 0, ci_low |-> 0, ci_high |-> 0]
        ELSE [rate |-> Round4(CountTrue(passes), n_total), n |-> n_total,
              n_pass |-> CountTrue(passes),
              ci_low |-> RoundCi(_bootstrap_ci(passes).ci_low),
              ci_high |-> RoundCi(_bootstrap_ci(passes).ci_high)]

_prompt_level(evaluations, loose) ==
    LET n_total == Len(evaluations)
        passes == [k \in 1 .. n_total |->
                     IF loose THEN LoosePass(evaluations[k])
                     ELSE evaluations[k].all_passed]
    IN  IF n_total = 0 THEN [rate |-> 0, n |-> 0, ci_low |-> 0, ci_high |-> 0]
        ELSE [rate |-> Round4(CountTrue(passes), n_total), n |-> n_total,
              n_pass |-> CountTrue(passes),
              ci_low |-> RoundCi(_bootstrap_ci(passes).ci_low),
              ci_high |-> RoundCi(_bootstrap_ci(passes).ci_high)]

\* the pooled outcomes: one boolean per (record, constraint)
Pool(evaluations, loose) ==
    Flatten([k \in 1 .. Len(evaluations) |->
        [j \in 1 .. Len(evaluations[k].constraints) |->
            IF loose THEN LooseOk(evaluations[k].constraints[j])
            ELSE evaluations[k].constraints[j].passed]])

_constraint_level(evaluations, loose) ==
    LET all_results == Pool(evaluations, loose)
        n_total == Len(all_results)
    IN  IF n_total = 0 THEN [rate |-> 0, n |-> 0, ci_low |-> 0, ci_high |-> 0]
        ELSE [rate |-> Round4(CountTrue(all_results), n_total), n |-> n_total,
              n_pass |-> CountTrue(all_results),
              ci_low |-> RoundCi(_bootstrap_ci(all_results).ci_low),
              ci_high |-> RoundCi(_bootstrap_ci(all_results).ci_high)]

\* the records of a group, as the set of their positions
Where(evaluations, field, value) ==
    {k \in 1 .. Len(evaluations) : evaluations[k][field] = value}

_by_bloom_level(evaluations) ==
    LET of(level) == Where(evaluations, "level", level)
        passing(level) == {k \in of(level) : evaluations[k].all_passed}
        level_evals(level) == SelectSeq(evaluations, LAMBDA e : e.level = level)
        passes(level) ==
            [k \in 1 .. Len(level_evals(level)) |-> level_evals(level)[k].all_passed]
    IN  [level \in {l \in BLOOM_LEVELS : of(l) # {}} |->
            [prompt_strict |-> Round4(Cardinality(passing(level)), Cardinality(of(level))),
             n |-> Cardinality(of(level)),
             n_pass |-> Cardinality(passing(level)),
             ci_low |-> RoundCi(_bootstrap_ci(passes(level)).ci_low),
             ci_high |-> RoundCi(_bootstrap_ci(passes(level)).ci_high)]]

_by_subject(evaluations) ==
    LET of(subject) == Where(evaluations, "subject", subject)
        passing(subject) == {k \in of(subject) : evaluations[k].all_passed}
    IN  [subject \in {evaluations[k].subject : k \in 1 .. Len(evaluations)} |->
            [prompt_strict |-> Round4(Cardinality(passing(subject)), Cardinality(of(subject))),
             n |-> Cardinality(of(subject)),
             n_pass |-> Cardinality(passing(subject))]]

\* the (record, constraint) positions of all constraint results
Outcomes(evaluations) ==
    {<<k, j>> \in (1 .. Len(evaluations)) \X (1 .. 16) :
        j <= Len(evaluations[k].constraints)}

\* the breakdown of the constraint results by c[field]: pass and total counts per key
Breakdown(evaluations, field) ==
    LET at(p) == evaluations[p[1]].constraints[p[2]]
        total(x) == {p \in Outcomes(evaluations) : at(p)[field] = x}
        pass(x) == {p \in total(x) : at(p).passed}
    IN  [x \in {at(p)[field] : p \in Outcomes(evaluations)} |->
            [pass_rate |-> Round4(Cardinality(pass(x)), Cardinality(total(x))),
             n_pass |-> Cardinality(pass(x)),
             n_total |-> Cardinality(total(x))]]

\* _by_constraint that counts a result as passing when its score >= 0.5
_by_constraint_LoosePass(evaluations) ==
    LET by == Breakdown(evaluations, "id")
        at(p) == evaluations[p[1]].constraints[p[2]]
        loose(x) == {p \in Outcomes(evaluations) : at(p).id = x /\ LooseOk(at(p))}
    IN  [x \in DOMAIN by |->
            [pass_rate |-> Round4(Cardinality(loose(x)), by[x].n_total),
             n_pass |-> Cardinality(loose(x)),
             n_total |-> by[x].n_total]]

_by_constraint(evaluations) == Breakdown(evaluations, "id")

_by_tier(evaluations) == Breakdown(evaluations, "tier")

compute_metrics(evaluations) ==
    IF evaluations = <<>> THEN <<>>
    ELSE [prompt_level_strict |-> _prompt_level(evaluations, FALSE),
          prompt_level_loose |-> _prompt_level(evaluations, TRUE),
          constraint_level_strict |-> _constraint_level(evaluations, FALSE),
          constraint_level_loose |-> _constraint_level(evaluations, TRUE),
          by_level |-> _by_bloom_level(evaluations),
          by_subject |-> _by_subject(evaluations),
          by_constraint |-> _by_constraint(evaluations),
          by_tier |-> _by_tier(evaluations)]

\* no evaluation run
NoRun ==
    /\ generations = <<>>
    /\ i = 0
    /\ evaluated = <<>>
    /\ n_pass = 0
    /\ checks = <<>>
    /\ saved = "none"
    /\ metrics = "none"
    /\ built = <<>>

\* no generation under way
NoGen ==
    /\ gen_mode = "none"
    /\ gen_todo = <<>>
    /\ gen_file = <<>>
    /\ gen_calls = <<>>

\* the locals of a caller that is not in _bootstrap_ci
IdleFrame == [pc |-> "idle", values |-> <<>>, seeded |-> FALSE, rng |-> 0, boot_means |-> <<>>]

\* the callers of _bootstrap_ci: the aggregation calls of two workers
Callers == {"w1", "w2"}

\* no call of _bootstrap_ci
NoBoot ==
    /\ frames = [w \in Callers |-> IdleFrame]
    /\ ci_results = {}
    /\ n_calls = 0

\* _nli_model = None
NoModel == [id |-> 0, moved |-> FALSE, eval |-> FALSE]

\* the semantic module as imported, and no record under evaluation
NoNli ==
    /\ _nli_model = NoModel
    /\ _nli_tokenizer = 0
    /\ loads = [tokenizer |-> 0, model |-> 0]
    /\ nli_calls = <<>>
    /\ sem_input = "none"
    /\ sem_k = 0
    /\ sem_results = <<>>
    /\ n_records = 0
    /\ backend = "up"

\* no rule called on its own
NoRule ==
    /\ rule_data = "none"
    /\ rule_result = <<>>

\* the list objects that the constraint modules make at import, in the order of
\* their addresses in `heap`: the seven lists of universal.py, structural.py and
\* adversarial.py, and the three that registry.py builds with `+` for the levels 2,
\* 3 and 6
RegistryNames ==
    << "UNIVERSAL_CONSTRAINTS", "REMEMBER_CONSTRAINTS", "UNDERSTAND_CONSTRAINTS",
       "APPLY_CONSTRAINTS", "ANALYZE_CONSTRAINTS", "EVALUATE_CONSTRAINTS",
       "CREATE_CONSTRAINTS", "ADVERSARIAL_CONSTRAINTS", "LEVEL_CONSTRAINTS[2]",
       "LEVEL_CONSTRAINTS[3]", "LEVEL_CONSTRAINTS[6]" >>

\* the address of a list of the registry
At(name) == CHOOSE k \in 1 .. Len(RegistryNames) : RegistryNames[k] = name

\* the heap after the import of registry.py
Registry ==
    << UNIVERSAL_CONSTRAINTS, REMEMBER_CONSTRAINTS, UNDERSTAND_CONSTRAINTS,
       APPLY_CONSTRAINTS, ANALYZE_CONSTRAINTS, EVALUATE_CONSTRAINTS,
       CREATE_CONSTRAINTS, ADVERSARIAL_CONSTRAINTS, LEVEL_CONSTRAINTS(2),
       LEVEL_CONSTRAINTS(3), LEVEL_CONSTRAINTS(6) >>

\* get_constraints not called yet
NoReg ==
    /\ heap = Registry
    /\ reg_calls = <<>>

\* the locals of a worker that is not in get_nli_model: the calls it has made and
\* the pair it got from the last one (0 for nothing yet)
IdleWorker == [pc |-> "idle", calls |-> 0, model |-> 0, tokenizer |-> 0]

\* no worker in get_nli_model
NoWorkers == nli_frames = [w \in Callers |-> IdleWorker]

\* no gap analysis runs
NoGap ==
    /\ std_evals = <<>>
    /\ adv_evals = <<>>
    /\ std_metrics = "none"
    /\ adv_metrics = "none"
    /\ gap_data = "none"

(***************************************************************************)
(* The run: evaluate_generations(gen_file) then compute_metrics(evaluated) *)
(* (cli.py, scripts/run_benchmark.py)                                      *)
(***************************************************************************)
Start(gens) ==
    /\ generations \in gens
    /\ pc = "loop"
    /\ i = 0
    /\ evaluated = <<>>
    /\ n_pass = 0
    /\ checks = <<>>
    /\ saved = "none"
    /\ metrics = "none"
    /\ built = <<>>
    /\ NoGap
    /\ NoBoot
    /\ NoReg
    /\ NoWorkers
    /\ NoNli
    /\ NoRule
    /\ NoGen

\* a generations file of any kind of generation
Init == Start(SeqsUpTo(AllGens, MaxGens))

\* a generations file of representative generations
InitBatch == Start(SeqsUpTo(SampleGens, MaxBatch))

\* one iteration of `for i, gen in enumerate(generations)`; an exception that leaves
\* evaluate_question leaves evaluate_generations
Evaluate ==
    /\ pc = "loop"
    /\ i < Len(generations)
    /\ LET r == evaluate_generation(generations[i + 1]) IN
        /\ checks' = Append(checks, r.called)
        /\ pc' = IF r.raised THEN "crashed" ELSE "loop"
        /\ i' = IF r.raised THEN i ELSE i + 1
        /\ evaluated' = IF r.raised THEN evaluated ELSE Append(evaluated, r.record)
        /\ n_pass' = IF ~r.raised /\ r.record.all_passed THEN n_pass + 1 ELSE n_pass
    /\ built' = IF Falsy(generations[i + 1].question) THEN built
                ELSE Append(built, QuestionData(generations[i + 1]))
    /\ UNCHANGED <<generations, saved, metrics>>
    /\ UNCHANGED outsideRun

\* after the loop: the evaluation file is written, then the summary line is printed,
\* which divides by n_total
Save ==
    /\ pc = "loop"
    /\ i = Len(generations)
    /\ LET n_total == Len(generations) IN
        /\ saved' = [n_evaluated |-> Len(evaluated),
                     prompt_pass_rate |-> IF n_total # 0 THEN <<n_pass, n_total>> ELSE <<0, 1>>,
                     evaluations |-> evaluated]
        /\ pc' = IF n_total = 0 THEN "crashed" ELSE "returned"
    /\ UNCHANGED <<generations, i, evaluated, n_pass, checks, metrics, built>>
    /\ UNCHANGED outsideRun

\* the caller: metrics = compute_metrics(evaluated)
ComputeMetrics ==
    /\ pc = "returned"
    /\ metrics' = compute_metrics(evaluated)
    /\ pc' = "done"
    /\ UNCHANGED <<generations, i, evaluated, n_pass, checks, saved, built>>
    /\ UNCHANGED outsideRun

Next == Evaluate \/ Save \/ ComputeMetrics

Spec == Init /\ [][Next]_vars

SpecBatch == InitBatch /\ [][Next]_vars

\* a long generations file of two kinds of generation
InitTen == Start(SeqsUpTo(TenGens, MaxTen))

SpecTen == InitTen /\ [][Next]_vars

(***************************************************************************)
(* The adversarial gap analysis (cli.py cmd_leaderboard, and the same      *)
(* calls in scripts/populate_leaderboard.py): compute_metrics of the       *)
(* standard and of the adversarial evaluations, compute_adversarial_gap,   *)
(* then the leaderboard row read from the metrics.                         *)
(***************************************************************************)
\* d.get(key, default)
Get(d, key, default) == IF key \in DOMAIN d THEN d[key] ELSE default

\* compute_adversarial_gap with the difference taken the other way round
compute_adversarial_gap_Swapped(standard_metrics, adversarial_metrics) ==
    LET std_rate == Get(Get(standard_metrics, "prompt_level_strict", <<>>), "rate", 0)
        adv_rate == Get(Get(adversarial_metrics, "prompt_level_strict", <<>>), "rate", 0)
        std_by_level == Get(standard_metrics, "by_level", <<>>)
        adv_by_level == Get(adversarial_metrics, "by_level", <<>>)
        std_l(level) == Get(Get(std_by_level, level, <<>>), "prompt_strict", 0)
        adv_l(level) == Get(Get(adv_by_level, level, <<>>), "prompt_strict", 0)
    IN  [overall_gap |-> adv_rate - std_rate,
         standard_rate |-> std_rate,
         adversarial_rate |-> adv_rate,
         by_level |-> [level \in BLOOM_LEVELS |->
                          [standard |-> std_l(level), adversarial |-> adv_l(level),
                           gap |-> adv_l(level) - std_l(level)]]]

\* The rates are numbers of ten-thousandths, which round(x, 4) leaves as they are,
\* and so is their difference.
compute_adversarial_gap(standard_metrics, adversarial_metrics) ==
    LET std_rate == Get(Get(standard_metrics, "prompt_level_strict", <<>>), "rate", 0)
        adv_rate == Get(Get(adversarial_metrics, "prompt_level_strict", <<>>), "rate", 0)
        std_by_level == Get(standard_metrics, "by_level", <<>>)
        adv_by_level == Get(adversarial_metrics, "by_level", <<>>)
        std_l(level) == Get(Get(std_by_level, level, <<>>), "prompt_strict", 0)
        adv_l(level) == Get(Get(adv_by_level, level, <<>>), "prompt_strict", 0)
    IN  [overall_gap |-> std_rate - adv_rate,
         standard_rate |-> std_rate,
         adversarial_rate |-> adv_rate,
         by_level |-> [level \in BLOOM_LEVELS |->
                          [standard |-> std_l(level), adversarial |-> adv_l(level),
                           gap |-> std_l(level) - adv_l(level)]]]

\* the evaluated records of representative generations of a mode
GapEvals(mode) == {evaluate_generation(g).record : g \in {x \in SampleGens : x.mode = mode}}

\* n records of a passing generation followed by m records of a failing one
Mixed(passing, failing, n, m) ==
    [k \in 1 .. n + m |->
        evaluate_generation(IF k <= n THEN passing ELSE failing).record]

\* a standard run of 5 records, 4 of them passing
FiveStandard ==
    Mixed(Generation("p1", "biology", 1, "standard", "Q", Nominal(1, "standard", NoLevel)),
          Generation("p2", "physics", 1, "standard", "Q", With(1, "standard", "R", "1", Fail)),
          4, 1)

\* an adversarial run of 10 records, 3 of them passing
TenAdversarial ==
    Mixed(Generation("p2", "physics", 4, "adversarial", "Q",
                     Nominal(4, "adversarial", VocabOf(4, "adversarial"))),
          Generation("p2", "physics", 4, "adversarial", "Q",
                     With(4, "adversarial", "A", "N", Res(FALSE, 50, "reason"))),
          3, 7)

\* the evaluation files of a model: the adversarial file may hold what the standard
\* file holds
InitGap ==
    /\ std_evals \in SeqsUpTo(GapEvals("standard"), MaxGap) \cup {FiveStandard}
    /\ adv_evals \in SeqsUpTo(GapEvals("adversarial"), MaxGap) \cup {TenAdversarial, std_evals}
    /\ std_metrics = "none"
    /\ adv_metrics = "none"
    /\ gap_data = "none"
    /\ pc = "std_metrics"
    /\ NoRun
    /\ NoGen
    /\ NoBoot
    /\ NoReg
    /\ NoWorkers
    /\ NoNli
    /\ NoRule

\* std_metrics = compute_metrics(std_evals)
StandardMetrics ==
    /\ pc = "std_metrics"
    /\ std_metrics' = compute_metrics(std_evals)
    /\ pc' = "adv_metrics"
    /\ UNCHANGED <<std_evals, adv_evals, adv_metrics, gap_data, outsideGap>>

\* adv_metrics = compute_metrics(adv_evals)
AdversarialMetrics ==
    /\ pc = "adv_metrics"
    /\ adv_metrics' = compute_metrics(adv_evals)
    /\ pc' = "gap"
    /\ UNCHANGED <<std_evals, adv_evals, std_metrics, gap_data, outsideGap>>

\* gap_data = compute_adversarial_gap(std_metrics, adv_metrics)
AdversarialGap ==
    /\ pc = "gap"
    /\ gap_data' = compute_adversarial_gap(std_metrics, adv_metrics)
    /\ pc' = "row"
    /\ UNCHANGED <<std_evals, adv_evals, std_metrics, adv_metrics, outsideGap>>

\* the leaderboard row: std_metrics["prompt_level_strict"]["rate"] and the like, a
\* KeyError when the key is absent
LeaderboardRow ==
    /\ pc = "row"
    /\ pc' = IF /\ "prompt_level_strict" \in DOMAIN std_metrics
                /\ "prompt_level_strict" \in DOMAIN adv_metrics
             THEN "listed" ELSE "crashed"
    /\ UNCHANGED <<gapVars, outsideGap>>

NextGap == StandardMetrics \/ AdversarialMetrics \/ AdversarialGap \/ LeaderboardRow

SpecGap == InitGap /\ [][NextGap]_vars

(***************************************************************************)
(* evaluation/metrics.py: _bootstrap_ci, statement by statement.  The      *)
(* aggregation functions call it once per metric entry with the pass/fail  *)
(* observations of that entry; the calls of two callers are interleaved    *)
(* here at every iteration of the resampling loop.  Everything a call      *)
(* holds (values, rng, boot_means) is a local of the call.                 *)
(***************************************************************************)
\* the observation vectors a call is made with
Observations == SeqsUpTo(BOOLEAN, MaxObs)

\* what a call returned: the dict entry the caller builds from it
Returned(values, bounds, seeded, n_resamples) ==
    [values |-> values, ci_low |-> bounds.ci_low, ci_high |-> bounds.ci_high,
     seeded |-> seeded, n_resamples |-> n_resamples]

\* a call whose generator continues the stream of the calls before it
Call_SharedGenerator(w, values) ==
    /\ frames[w].pc = "idle"
    /\ n_calls < MaxCalls
    /\ n_calls' = n_calls + 1
    /\ IF Len(values) < 2
       THEN /\ ci_results' = ci_results \cup {Returned(values, Collapsed(values), FALSE, 0)}
            /\ UNCHANGED frames
       ELSE /\ frames' = [frames EXCEPT ![w] =
                             [pc |-> "loop", values |-> values, seeded |-> TRUE,
                              rng |-> AdvanceBy(RandomState(SEED), n_calls), boot_means |-> <<>>]]
            /\ UNCHANGED ci_results
    /\ UNCHANGED outsideBoot

\* lines 221-225: the early return for fewer than two observations, else
\* rng = np.random.RandomState(SEED)
Call(w, values) ==
    /\ frames[w].pc = "idle"
    /\ n_calls < MaxCalls
    /\ n_calls' = n_calls + 1
    /\ IF Len(values) < 2
       THEN /\ ci_results' = ci_results \cup {Returned(values, Collapsed(values), FALSE, 0)}
            /\ UNCHANGED frames
       ELSE /\ frames' = [frames EXCEPT ![w] =
                             [pc |-> "loop", values |-> values, seeded |-> TRUE,
                              rng |-> RandomState(SEED), boot_means |-> <<>>]]
            /\ UNCHANGED ci_results
    /\ UNCHANGED outsideBoot

\* lines 229-231: one iteration of the resampling loop
ResampleStep(w) ==
    /\ frames[w].pc = "loop"
    /\ Len(frames[w].boot_means) < BOOTSTRAP_N
    /\ LET sample == Resample(frames[w].rng, frames[w].values)
       IN  frames' = [frames EXCEPT ![w].rng = sample.rng,
                                    ![w].boot_means = Append(@, sample.ones)]
    /\ UNCHANGED <<ci_results, n_calls>>
    /\ UNCHANGED outsideBoot

\* lines 233-238: the percentiles, and the return, with which the locals go
Percentiles(w) ==
    /\ frames[w].pc = "loop"
    /\ Len(frames[w].boot_means) = BOOTSTRAP_N
    /\ ci_results' = ci_results \cup
          {Returned(frames[w].values,
                    Bounds(frames[w].boot_means, Len(frames[w].values)),
                    frames[w].seeded, Len(frames[w].boot_means))}
    /\ frames' = [frames EXCEPT ![w] = IdleFrame]
    /\ UNCHANGED n_calls
    /\ UNCHANGED outsideBoot

InitBoot ==
    /\ pc = "aggregate"
    /\ NoRun
    /\ NoGen
    /\ NoGap
    /\ NoBoot
    /\ NoReg
    /\ NoWorkers
    /\ NoNli
    /\ NoRule

NextBoot ==
    \/ \E w \in Callers, values \in Observations : Call(w, values)
    \/ \E w \in Callers : ResampleStep(w)
    \/ \E w \in Callers : Percentiles(w)

SpecBoot == InitBoot /\ [][NextBoot]_vars

(***************************************************************************)
(* constraints/semantic.py: the NLI model and the rules D3, P2, C2, inside *)
(* evaluate_question taken one rule at a time.  A model is the record of   *)
(* its number (the n-th that from_pretrained returned) and of whether      *)
(* .to(device) and .eval() were done.  What the libraries do in a call is  *)
(* an input of the call (its fault): nothing, or an exception raised by    *)
(* the tokenizer's from_pretrained, by the model's from_pretrained, by     *)
(* .to(device), or by the tokenizer or the forward pass in nli_predict.    *)
(* Probabilities are numbers of hundredths.                                *)
(***************************************************************************)
Faults == {"none", "tokenizer", "model", "device", "forward"}

\* get_nli_model without the test of _nli_model: a model per call
get_nli_model_PerCall(model, tokenizer, n, fault) ==
    IF fault = "tokenizer"
    THEN [raises |-> TRUE, model |-> model, tokenizer |-> tokenizer, loads |-> n]
    ELSE IF fault = "model"
    THEN [raises |-> TRUE, model |-> model, tokenizer |-> n.tokenizer + 1,
          loads |-> [n EXCEPT !.tokenizer = @ + 1]]
    ELSE IF fault = "device"
    THEN [raises |-> TRUE,
          model |-> [id |-> n.model + 1, moved |-> FALSE, eval |-> FALSE],
          tokenizer |-> n.tokenizer + 1,
          loads |-> [tokenizer |-> n.tokenizer + 1, model |-> n.model + 1]]
    ELSE [raises |-> FALSE,
          model |-> [id |-> n.model + 1, moved |-> TRUE, eval |-> TRUE],
          tokenizer |-> n.tokenizer + 1,
          loads |-> [tokenizer |-> n.tokenizer + 1, model |-> n.model + 1]]

\* get_nli_model: the globals after the call, and whether it raised.  The global
\* _nli_model is assigned (line 35) before .to(device) and .eval() (lines 38-39).
get_nli_model(model, tokenizer, n, fault) ==
    IF model # NoModel
    THEN [raises |-> FALSE, model |-> model, tokenizer |-> tokenizer, loads |-> n]
    ELSE IF fault = "tokenizer"
    THEN [raises |-> TRUE, model |-> model, tokenizer |-> tokenizer, loads |-> n]
    ELSE IF fault = "model"
    THEN [raises |-> TRUE, model |-> model, tokenizer |-> n.tokenizer + 1,
          loads |-> [n EXCEPT !.tokenizer = @ + 1]]
    ELSE IF fault = "device"
    THEN [raises |-> TRUE,
          model |-> [id |-> n.model + 1, moved |-> FALSE, eval |-> FALSE],
          tokenizer |-> n.tokenizer + 1,
          loads |-> [tokenizer |-> n.tokenizer + 1, model |-> n.model + 1]]
    ELSE [raises |-> FALSE,
          model |-> [id |-> n.model + 1, moved |-> TRUE, eval |-> TRUE],
          tokenizer |-> n.tokenizer + 1,
          loads |-> [tokenizer |-> n.tokenizer + 1, model |-> n.model + 1]]

\* nli_predict(premise, hypothesis): the globals after the call, whether it raised,
\* the model the forward pass went through (0 for none) and the dict returned;
\* `scores` is what the model predicts for the two texts
nli_predict(model, tokenizer, n, fault, scores) ==
    LET got == get_nli_model(model, tokenizer, n, fault) IN
    IF got.raises
    THEN [raises |-> TRUE, used |-> 0, scores |-> <<>>, model |-> got.model,
          tokenizer |-> got.tokenizer, loads |-> got.loads]
    ELSE IF fault = "forward"
    THEN [raises |-> TRUE, used |-> 0, scores |-> <<>>, model |-> got.model,
          tokenizer |-> got.tokenizer, loads |-> got.loads]
    ELSE [raises |-> FALSE, used |-> got.model.id, scores |-> scores, model |-> got.model,
          tokenizer |-> got.tokenizer, loads |-> got.loads]

\* the text a semantic rule gives nli_predict as hypothesis: the question for P2, the
\* answer for D3 and C2
hypothesis(id, data) == IF id = <<"P", "2">> THEN data.question ELSE data.answer

\* "if not data.passage or not data.answer" (or not data.question): no call of
\* nli_predict
needs_nli(id, data) == data.passage # "" /\ hypothesis(id, data) # ""

\* the except branch returning a pass, as the skip does
semantic_check_FailOpen(id, data, predicted) ==
    IF ~needs_nli(id, data) THEN Skipped
    ELSE IF predicted.raises THEN Skipped
    ELSE IF id = <<"D", "3">>
    THEN LET contradiction == Get(predicted.scores, "contradiction", 100)
         IN  Res(contradiction < 50, 100 - contradiction, "reason")
    ELSE LET non_entailment == Get(predicted.scores, "neutral", 0)
                                + Get(predicted.scores, "contradiction", 0)
         IN  Res(non_entailment >= (IF id = <<"P", "2">> THEN 55 ELSE 60),
                 non_entailment, "reason")

\* check() of D3 (lines 95-117), P2 (131-154), C2 (171-193) given what its call of
\* nli_predict did
semantic_check(id, data, predicted) ==
    IF ~needs_nli(id, data) THEN Skipped
    ELSE IF predicted.raises THEN Res(FALSE, 0, "NLI error: ")
    ELSE IF id = <<"D", "3">>
    THEN LET contradiction == Get(predicted.scores, "contradiction", 100)
         IN  Res(contradiction < 50, 100 - contradiction, "reason")
    ELSE LET non_entailment == Get(predicted.scores, "neutral", 0)
                                + Get(predicted.scores, "contradiction", 0)
         IN  Res(non_entailment >= (IF id = <<"P", "2">> THEN 55 ELSE 60),
                 non_entailment, "reason")

\* what the model predicts for a pair of texts (softmax probabilities, of sum 1):
\* entailment, contradiction, in between at the thresholds, or a dict without the
\* three labels
Predictions ==
    { [entailment |-> 90, neutral |-> 5, contradiction |-> 5],
      [entailment |-> 5, neutral |-> 5, contradiction |-> 90],
      [entailment |-> 41, neutral |-> 9, contradiction |-> 50],
      [entailment |-> 45, neutral |-> 6, contradiction |-> 49],
      <<>> }

\* the records evaluate_question is called for: a generation with a question, its
\* passage text ("" when the passage id is unknown) and its answer ("" when none was
\* extracted), and what the model predicts for its texts
SemanticInput(gen, passage, answer, scores) ==
    [gen |-> gen, question |-> gen.question, passage |-> passage, answer |-> answer,
     scores |-> scores]

SemanticInputs ==
    {SemanticInput(gen, passage, answer, scores) :
        gen \in { Generation("p1", "biology", 2, "standard", "Q", Nominal(2, "standard", NoLevel)),
                  Generation("p1", "biology", 3, "standard", "Q",
                             With(3, "standard", "U", "1", Fail)),
                  Generation("p2", "physics", 6, "adversarial", "Q",
                             With(6, "adversarial", "A", "N", Raises)) },
        passage \in {"", "P"}, answer \in {"", "A"}, scores \in Predictions}

\* evaluate_question on the record with a backend that answers
WithWorkingBackend(input) ==
    LET constraints == get_constraints(input.gen.level, input.gen.mode) IN
    [k \in 1 .. Len(constraints) |->
        IF constraints[k].tier = "semantic"
        THEN ResultOf(constraints[k],
                      semantic_check(constraints[k].constraint_id, input,
                                     [raises |-> FALSE, scores |-> input.scores]))
        ELSE ResultOf(constraints[k], input.gen.outcomes[constraints[k]])]

\* the rule list of the record under evaluation
sem_constraints == get_constraints(sem_input.gen.level, sem_input.gen.mode)

\* evaluate.py lines 30-46: QuestionData is built and the rules are selected
BeginRecord(input) ==
    /\ pc = "between"
    /\ n_records < MaxRecords
    /\ pc' = "rules"
    /\ n_records' = n_records + 1
    /\ sem_input' = input
    /\ sem_k' = 1
    /\ sem_results' = <<>>
    /\ UNCHANGED <<_nli_model, _nli_tokenizer, loads, nli_calls, backend>>
    /\ UNCHANGED outsideNli

\* evaluate.py lines 48-57 for a rule of another tier: its check() on the texts
RunRule ==
    /\ pc = "rules"
    /\ sem_k <= Len(sem_constraints)
    /\ sem_constraints[sem_k].tier # "semantic"
    /\ sem_results' = Append(sem_results,
                             ResultOf(sem_constraints[sem_k],
                                      sem_input.gen.outcomes[sem_constraints[sem_k]]))
    /\ sem_k' = sem_k + 1
    /\ UNCHANGED <<pc, _nli_model, _nli_tokenizer, loads, nli_calls, sem_input, n_records,
                   backend>>
    /\ UNCHANGED outsideNli

\* evaluate.py lines 48-57 for a semantic rule: its check(), and in it the call of
\* nli_predict when the texts are there
RunSemanticRule(fault) ==
    /\ pc = "rules"
    /\ sem_k <= Len(sem_constraints)
    /\ sem_constraints[sem_k].tier = "semantic"
    /\ LET c == sem_constraints[sem_k]
           needs == needs_nli(c.constraint_id, sem_input)
           predicted == nli_predict(_nli_model, _nli_tokenizer, loads, fault, sem_input.scores)
           result == ResultOf(c, semantic_check(c.constraint_id, sem_input, predicted))
       IN  /\ sem_results' = Append(sem_results, result)
           /\ IF needs
              THEN /\ backend = "down" => predicted.raises
                   /\ _nli_model' = predicted.model
                   /\ _nli_tokenizer' = predicted.tokenizer
                   /\ loads' = predicted.loads
                   /\ nli_calls' = Append(nli_calls,
                          [record |-> n_records, rule |-> c.constraint_id, needs |-> TRUE,
                           found |-> _nli_model.id,
                           constructed |-> predicted.loads.model > loads.model,
                           used |-> predicted.used, raises |-> predicted.raises,
                           result |-> result])
              ELSE /\ fault = "none"
                   /\ UNCHANGED <<_nli_model, _nli_tokenizer, loads>>
                   /\ nli_calls' = Append(nli_calls,
                          [record |-> n_records, rule |-> c.constraint_id, needs |-> FALSE,
                           found |-> _nli_model.id, constructed |-> FALSE,
                           used |-> 0, raises |-> FALSE, result |-> result])
    /\ sem_k' = sem_k + 1
    /\ UNCHANGED <<pc, sem_input, n_records, backend>>
    /\ UNCHANGED outsideNli

\* evaluate.py line 59: return results
EndRecord ==
    /\ pc = "rules"
    /\ sem_k > Len(sem_constraints)
    /\ pc' = "returned"
    /\ UNCHANGED <<_nli_model, _nli_tokenizer, loads, nli_calls, sem_input, sem_k,
                   sem_results, n_records, backend>>
    /\ UNCHANGED outsideNli

\* the caller takes the results and goes to its next record
NextRecord ==
    /\ pc = "returned"
    /\ pc' = "between"
    /\ UNCHANGED <<_nli_model, _nli_tokenizer, loads, nli_calls, sem_input, sem_k,
                   sem_results, n_records, backend>>
    /\ UNCHANGED outsideNli

\* the module as imported, with a backend that works (failing now and then) or one
\* that is never there
InitNli ==
    /\ pc = "between"
    /\ NoRun
    /\ NoGen
    /\ NoGap
    /\ NoBoot
    /\ NoReg
    /\ NoWorkers
    /\ NoRule
    /\ _nli_model = NoModel
    /\ _nli_tokenizer = 0
    /\ loads = [tokenizer |-> 0, model |-> 0]
    /\ nli_calls = <<>>
    /\ sem_input = "none"
    /\ sem_k = 0
    /\ sem_results = <<>>
    /\ n_records = 0
    /\ backend \in {"up", "down"}

NextNli ==
    \/ \E input \in SemanticInputs : BeginRecord(input)
    \/ RunRule
    \/ \E fault \in Faults : RunSemanticRule(fault)
    \/ EndRecord
    \/ NextRecord

SpecNli == InitNli /\ [][NextNli]_vars

(***************************************************************************)
(* get_nli_model called by the workers of one process (threads that each   *)
(* evaluate records), one statement of semantic.py at a time.  The globals *)
(* are shared; the function takes no lock.                                 *)
(***************************************************************************)
\* the semantic rules' state that get_nli_model does not touch
besideModel == <<nli_calls, sem_input, sem_k, sem_results, n_records, backend>>

\* a worker's frame moved to another statement
At_pc(w, to) == [nli_frames EXCEPT ![w].pc = to]

\* nli_predict line 56: the worker calls get_nli_model
CallGetNliModel(w) ==
    /\ pc = "workers"
    /\ nli_frames[w].pc = "idle"
    /\ nli_frames[w].calls < MaxWorkerCalls
    /\ nli_frames' = [nli_frames EXCEPT ![w].pc = "test", ![w].calls = @ + 1]
    /\ UNCHANGED <<pc, _nli_model, _nli_tokenizer, loads, besideModel>>
    /\ UNCHANGED outsideWorkers

\* line 30: if _nli_model is None
TestModel(w) ==
    /\ pc = "workers"
    /\ nli_frames[w].pc = "test"
    /\ nli_frames' = At_pc(w, IF _nli_model = NoModel THEN "tokenizer" ELSE "return")
    /\ UNCHANGED <<pc, _nli_model, _nli_tokenizer, loads, besideModel>>
    /\ UNCHANGED outsideWorkers

\* line 34: _nli_tokenizer = AutoTokenizer.from_pretrained(NLI_MODEL_NAME)
LoadTokenizer(w) ==
    /\ pc = "workers"
    /\ nli_frames[w].pc = "tokenizer"
    /\ _nli_tokenizer' = loads.tokenizer + 1
    /\ loads' = [loads EXCEPT !.tokenizer = @ + 1]
    /\ nli_frames' = At_pc(w, "model")
    /\ UNCHANGED <<pc, _nli_model, besideModel>>
    /\ UNCHANGED outsideWorkers

\* line 35: _nli_model = AutoModelForSequenceClassification.from_pretrained(...)
LoadModel(w) ==
    /\ pc = "workers"
    /\ nli_frames[w].pc = "model"
    /\ _nli_model' = [id |-> loads.model + 1, moved |-> FALSE, eval |-> FALSE]
    /\ loads' = [loads EXCEPT !.model = @ + 1]
    /\ nli_frames' = At_pc(w, "to")
    /\ UNCHANGED <<pc, _nli_tokenizer, besideModel>>
    /\ UNCHANGED outsideWorkers

\* line 38: _nli_model = _nli_model.to(device), on the model the global holds now
MoveToDevice(w) ==
    /\ pc = "workers"
    /\ nli_frames[w].pc = "to"
    /\ _nli_model' = [_nli_model EXCEPT !.moved = TRUE]
    /\ nli_frames' = At_pc(w, "eval")
    /\ UNCHANGED <<pc, _nli_tokenizer, loads, besideModel>>
    /\ UNCHANGED outsideWorkers

\* line 39: _nli_model.eval()
EvalMode(w) ==
    /\ pc = "workers"
    /\ nli_frames[w].pc = "eval"
    /\ _nli_model' = [_nli_model EXCEPT !.eval = TRUE]
    /\ nli_frames' = At_pc(w, "return")
    /\ UNCHANGED <<pc, _nli_tokenizer, loads, besideModel>>
    /\ UNCHANGED outsideWorkers

\* line 42: return _nli_model, _nli_tokenizer
ReturnModel(w) ==
    /\ pc = "workers"
    /\ nli_frames[w].pc = "return"
    /\ nli_frames' = [nli_frames EXCEPT ![w].pc = "idle", ![w].model = _nli_model.id,
                                        ![w].tokenizer = _nli_tokenizer]
    /\ UNCHANGED <<pc, _nli_model, _nli_tokenizer, loads, besideModel>>
    /\ UNCHANGED outsideWorkers

InitWorkers ==
    /\ pc = "workers"
    /\ NoWorkers
    /\ NoNli
    /\ NoRun
    /\ NoGen
    /\ NoGap
    /\ NoBoot
    /\ NoReg
    /\ NoRule

NextWorkers ==
    \E w \in Callers :
        \/ CallGetNliModel(w)
        \/ TestModel(w)
        \/ LoadTokenizer(w)
        \/ LoadModel(w)
        \/ MoveToDevice(w)
        \/ EvalMode(w)
        \/ ReturnModel(w)

SpecWorkers == InitWorkers /\ [][NextWorkers]_vars

(***************************************************************************)
(* A rule's check() on its own, computed from the record it is given.  A   *)
(* text is the sequence of its characters, so that str.lower() and the     *)
(* substring test `p in text_lower` are computed.  A score is the exact    *)
(* fraction <<num, den>>.  Texts enter the rules that count (words,        *)
(* concepts, n-grams, markers) by these counts.                            *)
(***************************************************************************)
\* config.py BLOOM_VERBS: the verbs of a level, [] for any other key (.get)
BLOOM_VERBS(level) ==
    CASE level = 1 ->
            << <<"d", "e", "f", "i", "n", "e">>,
               <<"l", "i", "s", "t">>,
               <<"r", "e", "c", "a", "l", "l">>,
               <<"i", "d", "e", "n", "t", "i", "f", "y">>,
               <<"n", "a", "m", "e">>,
               <<"s", "t", "a", "t", "e">>,
               <<"w", "h", "a", "t", " ", "i", "s">>,
               <<"w", "h", "o">>,
               <<"w", "h", "e", "n">>,
               <<"w", "h", "e", "r", "e">>,
               <<"w", "h", "i", "c", "h">>,
               <<"l", "a", "b", "e", "l">>,
               <<"r", "e", "c", "o", "g", "n", "i", "z", "e">>,
               <<"m", "a", "t", "c", "h">>,
               <<"s", "e", "l", "e", "c", "t">>,
               <<"m", "e", "m", "o", "r", "i", "z", "e">> >>
      [] level = 2 ->
            << <<"e", "x", "p", "l", "a", "i", "n">>,
               <<"d", "e", "s", "c", "r", "i", "b", "e">>,
               <<"s", "u", "m", "m", "a", "r", "i", "z", "e">>,
               <<"i", "n", "t", "e", "r", "p", "r", "e", "t">>,
               <<"p", "a", "r", "a", "p", "h", "r", "a", "s", "e">>,
               <<"i", "l", "l", "u", "s", "t", "r", "a", "t", "e">>,
               <<"d", "i", "s", "c", "u", "s", "s">>,
               <<"c", "l", "a", "s", "s", "i", "f", "y">>,
               <<"c", "o", "m", "p", "a", "r", "e">>,
               <<"d", "i", "s", "t", "i", "n", "g", "u", "i", "s", "h">>,
               <<"i", "n", "f", "e", "r">>,
               <<"p", "r", "e", "d", "i", "c", "t">>,
               <<"r", "e", "s", "t", "a", "t", "e">>,
               <<"t", "r", "a", "n", "s", "l", "a", "t", "e">> >>
      [] level = 3 ->
            << <<"c", "a", "l", "c", "u", "l", "a", "t", "e">>,
               <<"s", "o", "l", "v", "e">>,
               <<"a", "p", "p", "l", "y">>,
               <<"d", "e", "m", "o", "n", "s", "t", "r", "a", "t", "e">>,
               <<"i", "m", "p", "l", "e", "m", "e", "n", "t">>,
               <<"u", "s", "e">>,
               <<"c", "o", "m", "p", "u", "t", "e">>,
               <<"d", "e", "t", "e", "r", "m", "i", "n", "e">>,
               <<"e", "x", "e", "c", "u", "t", "e">>,
               <<"p", "r", "a", "c", "t", "i", "c", "e">>,
               <<"o", "p", "e", "r", "a", "t", "e">>,
               <<"s", "k", "e", "t", "c", "h">>,
               <<"m", "o", "d", "i", "f", "y">> >>
      [] level = 4 ->
            << <<"c", "o", "m", "p", "a", "r", "e">>,
               <<"c", "o", "n", "t", "r", "a", "s", "t">>,
               <<"e", "x", "a", "m", "i", "n", "e">>,
               <<"d", "i", "f", "f", "e", "r", "e", "n", "t", "i", "a", "t", "e">>,
               <<"c", "a", "t", "e", "g", "o", "r", "i", "z", "e">>,
               <<"d", "i", "s", "t", "i", "n", "g", "u", "i", "s", "h">>,
               <<"r", "e", "l", "a", "t", "e">>,
               <<"a", "n", "a", "l", "y", "z", "e">>,
               <<"o", "r", "g", "a", "n", "i", "z", "e">>,
               <<"d", "e", "c", "o", "n", "s", "t", "r", "u", "c", "t">>,
               <<"a", "t", "t", "r", "i", "b", "u", "t", "e">>,
               <<"o", "u", "t", "l", "i", "n", "e">>,
               <<"i", "n", "v", "e", "s", "t", "i", "g", "a", "t", "e">> >>
      [] level = 5 ->
            << <<"a", "s", "s", "e", "s", "s">>,
               <<"c", "r", "i", "t", "i", "q", "u", "e">>,
               <<"j", "u", "d", "g", "e">>,
               <<"j", "u", "s", "t", "i", "f", "y">>,
               <<"a", "r", "g", "u", "e">>,
               <<"d", "e", "f", "e", "n", "d">>,
               <<"e", "v", "a", "l", "u", "a", "t", "e">>,
               <<"r", "e", "c", "o", "m", "m", "e", "n", "d">>,
               <<"t", "o", " ", "w", "h", "a", "t", " ", "e", "x", "t", "e", "n", "t">>,
               <<"a", "p", "p", "r", "a", "i", "s", "e">>,
               <<"p", "r", "i", "o", "r", "i", "t", "i", "z", "e">>,
               <<"r", "a", "t", "e">>,
               <<"s", "u", "p", "p", "o", "r", "t">>,
               <<"c", "o", "n", "c", "l", "u", "d", "e">> >>
      [] level = 6 ->
            << <<"d", "e", "s", "i", "g", "n">>,
               <<"d", "e", "v", "e", "l", "o", "p">>,
               <<"p", "r", "o", "p", "o", "s", "e">>,
               <<"c", "o", "n", "s", "t", "r", "u", "c", "t">>,
               <<"f", "o", "r", "m", "u", "l", "a", "t", "e">>,
               <<"s", "y", "n", "t", "h", "e", "s", "i", "z", "e">>,
               <<"c", "r", "e", "a", "t", "e">>,
               <<"d", "e", "v", "i", "s", "e">>,
               <<"p", "l", "a", "n">>,
               <<"c", "o", "m", "p", "o", "s", "e">>,
               <<"i", "n", "v", "e", "n", "t">>,
               <<"p", "r", "o", "d", "u", "c", "e">>,
               <<"g", "e", "n", "e", "r", "a", "t", "e">>,
               <<"e", "l", "a", "b", "o", "r", "a", "t", "e">> >>
      [] OTHER -> <<>>

Upper == <<"A", "B", "C", "D", "E", "F", "G", "H", "I", "J", "K", "L", "M",
           "N", "O", "P", "Q", "R", "S", "T", "U", "V", "W", "X", "Y", "Z">>
Lower == <<"a", "b", "c", "d", "e", "f", "g", "h", "i", "j", "k", "l", "m",
           "n", "o", "p", "q", "r", "s", "t", "u", "v", "w", "x", "y", "z">>

\* str.lower()
lower(text) ==
    [k \in 1 .. Len(text) |->
        IF \E u \in 1 .. 26 : Upper[u] = text[k]
        THEN Lower[CHOOSE u \in 1 .. 26 : Upper[u] = text[k]]
        ELSE text[k]]

\* p in text
contains(text, p) ==
    \E start \in 1 .. (Len(text) - Len(p) + 1) : SubSeq(text, start, start + Len(p) - 1) = p

\* _contains_any(text_lower, patterns)[0]
_contains_any(text_lower, patterns) ==
    \E k \in 1 .. Len(patterns) : contains(text_lower, patterns[k])

\* QuestionData.question_lower
question_lower(data) == lower(data.question)

\* Constraint._result with the score as a fraction
Scored(passed, score, details) ==
    [passed |-> passed, score |-> score, details |-> details]

\* AN with the failure scored 0.0 as the failure of AV is
AdversarialNoTargetVocab_Hard(data) ==
    IF data.mode # "adversarial" THEN Scored(TRUE, <<1, 1>>, "skipped")
    ELSE IF BLOOM_VERBS(data.target_level) = <<>> THEN Scored(TRUE, <<1, 1>>, "skipped")
    ELSE IF ~_contains_any(question_lower(data), BLOOM_VERBS(data.target_level))
    THEN Scored(TRUE, <<1, 1>>, "reason")
    ELSE Scored(FALSE, <<0, 1>>, "reason")

\* AV that looks for the verbs whatever vocab_level is
AdversarialVocabulary_NoSkip(data) ==
    IF data.mode # "adversarial" THEN Scored(TRUE, <<1, 1>>, "skipped")
    ELSE IF _contains_any(question_lower(data), BLOOM_VERBS(data.vocab_level))
    THEN Scored(TRUE, <<1, 1>>, "reason")
    ELSE Scored(FALSE, <<0, 1>>, "reason")

\* AV.check (adversarial.py lines 34-52)
AdversarialVocabulary_on(data) ==
    IF data.mode # "adversarial" \/ data.vocab_level = NoLevel THEN Scored(TRUE, <<1, 1>>, "skipped")
    ELSE IF BLOOM_VERBS(data.vocab_level) = <<>> THEN Scored(TRUE, <<1, 1>>, "skipped")
    ELSE IF _contains_any(question_lower(data), BLOOM_VERBS(data.vocab_level))
    THEN Scored(TRUE, <<1, 1>>, "reason")
    ELSE Scored(FALSE, <<0, 1>>, "reason")

\* AN.check (adversarial.py lines 66-85)
AdversarialNoTargetVocab_on(data) ==
    IF data.mode # "adversarial" THEN Scored(TRUE, <<1, 1>>, "skipped")
    ELSE IF BLOOM_VERBS(data.target_level) = <<>> THEN Scored(TRUE, <<1, 1>>, "skipped")
    ELSE IF ~_contains_any(question_lower(data), BLOOM_VERBS(data.target_level))
    THEN Scored(TRUE, <<1, 1>>, "reason")
    ELSE Scored(FALSE, <<1, 2>>, "reason")

\* the questions given to the adversarial rules: verbs of one level, of two, a verb
\* inside another word ("rate" in "illustrate", "use" in "cause"), in capitals, of
\* two words ("what is"), none, and the empty question
Questions ==
    { <<"L", "i", "s", "t", " ", "t", "h", "e", " ", "s", "t", "e", "p", "s", ".">>,
      <<"C", "o", "m", "p", "a", "r", "e", " ", "a", "n", "d", " ", "l", "i", "s", "t", " ", "t", "h", "e", "m">>,
      <<"I", "l", "l", "u", "s", "t", "r", "a", "t", "e", " ", "t", "h", "e", " ", "c", "y", "c", "l", "e">>,
      <<"W", "h", "y", " ", "d", "o", "e", "s", " ", "i", "t", " ", "f", "a", "l", "l", "?">>,
      <<"A", "N", "A", "L", "Y", "Z", "E", " ", "t", "h", "e", " ", "c", "a", "u", "s", "e">>,
      <<>>,
      <<"W", "h", "a", "t", " ", "i", "s", " ", "t", "h", "e", " ", "p", "l", "a", "n">> }

\* the QuestionData of a question: every mode, target level and vocab_level (NoLevel
\* for None)
TextInputs ==
    {[kind |-> "text", question |-> question, mode |-> mode, target_level |-> target_level,
      vocab_level |-> vocab_level] :
        question \in Questions, mode \in Modes, target_level \in BLOOM_LEVELS,
        vocab_level \in {NoLevel} \cup BLOOM_LEVELS}

\* the QuestionData whose vocab_level names a level that BLOOM_VERBS does not have
UnlistedInputs ==
    {[kind |-> "unlisted", question |-> question, mode |-> mode, target_level |-> target_level,
      vocab_level |-> vocab_level] :
        question \in Questions, mode \in Modes, target_level \in BLOOM_LEVELS,
        vocab_level \in {7}}

\* min(num / den, 1.0)
capped_NoMin(num, den) == <<num, den>>

capped(num, den) == IF num >= den THEN <<1, 1>> ELSE <<num, den>>

\* universal.py line 85 with no shorter minimum for level 1
min_words_NoLevelOne(target_level) == 10

\* universal.py line 85: min_words = 5 if data.target_level == 1 else U_MIN_WORDS
min_words(target_level) == IF target_level = 1 THEN 5 ELSE 10

\* the rule fails a record that has no key concepts instead of skipping it
no_key_concepts_Never(data) == FALSE

\* `not data.key_concepts` (universal.py line 138, structural.py lines 135, 519, 576)
no_key_concepts(data) == data.n_concepts = 0

\* check() of U2 (lines 81-94), U3 (137-167), U4 (177-204) of universal.py on the
\* counts that it takes from the texts
universal_check(data) ==
    CASE data.id = "U2" ->
            IF data.n_words < min_words(data.target_level)
            THEN Scored(FALSE, <<data.n_words, min_words(data.target_level)>>, "reason")
            ELSE IF data.n_words > 150
            THEN Scored(FALSE, <<150, data.n_words>>, "reason")
            ELSE Scored(TRUE, <<1, 1>>, "reason")
      [] data.id = "U3" ->
            LET min_terms == IF data.target_level = 1 THEN 1 ELSE 2 IN
            IF no_key_concepts(data) THEN Scored(TRUE, <<1, 1>>, "skipped")
            ELSE Scored(data.n_found >= min_terms, capped(data.n_found, min_terms), "reason")
      [] data.id = "U4" ->
            IF data.text_len = 0 THEN Scored(FALSE, <<0, 1>>, "reason")
            ELSE IF data.text_len < 5 THEN Scored(FALSE, <<0, 1>>, "reason")
            ELSE IF data.most_common_count > 3
            THEN Scored(FALSE, <<3, data.most_common_count>>, "reason")
            ELSE Scored(TRUE, <<1, 1>>, "reason")

\* check() of the rules of structural.py whose score is computed, on the counts that
\* it takes from the texts: R2 (134-147), R3 (157-166), R4 (176-195), D2 (264-282),
\* A2 (518-542), A4 (575-596), C3 (763-777), C4 (787-797)
structural_check(data) ==
    CASE data.id = "R2" ->
            IF no_key_concepts(data) THEN Scored(TRUE, <<1, 1>>, "skipped")
            ELSE IF data.n <= 2 THEN Scored(TRUE, <<1, 1>>, "reason")
            ELSE Scored(FALSE, <<2, data.n>>, "reason")
      [] data.id = "R3" ->
            IF data.n_words <= 20 THEN Scored(TRUE, <<1, 1>>, "reason")
            ELSE Scored(FALSE, <<20, data.n_words>>, "reason")
      [] data.id = "R4" ->
            IF data.n_stems = 0 THEN Scored(TRUE, <<1, 1>>, "skipped")
            ELSE Scored(100 * data.n_overlap >= 60 * data.n_stems,
                        <<data.n_overlap, data.n_stems>>, "reason")
      [] data.id = "D2" ->
            IF data.n_words < 5 THEN Scored(TRUE, <<1, 1>>, "skipped")
            ELSE IF data.n_ngrams = 0 THEN Scored(TRUE, <<1, 1>>, "reason")
            ELSE Scored(100 * data.n_overlap < 70 * data.n_ngrams,
                        <<data.n_ngrams - data.n_overlap, data.n_ngrams>>, "reason")
      [] data.id = "A2" ->
            IF no_key_concepts(data) THEN Scored(TRUE, <<1, 1>>, "skipped")
            ELSE Scored(data.n >= 2, capped(data.n, 2), "reason")
      [] data.id = "A4" ->
            IF no_key_concepts(data) THEN Scored(TRUE, <<1, 1>>, "skipped")
            ELSE IF data.n_q = 0 THEN Scored(TRUE, <<1, 1>>, "skipped")
            ELSE Scored(data.n_a = data.n_q, <<data.n_a, data.n_q>>, "reason")
      [] data.id = "C3" -> Scored(data.n >= 2, capped(data.n, 2), "reason")
      [] data.id = "C4" -> Scored(data.n_words > 50, capped(data.n_words, 50), "reason")

\* check() of the rules that return one of a few fixed scores, by the branch taken:
\* U1 (universal.py 39-71: "?" 1.0, task starter 0.8, response ending 0.7, question
\* word 0.6, else 0.0), the vocabulary rules (structural.py 94-108 and the like: verb
\* 1.0, pattern 0.9, else 0.0), P3 (362-396: 1.0, vocabulary overlap 0.8, else 0.0),
\* the marker rules (1.0 or 0.0)
fixed_check(data) ==
    CASE data.branch = "first" -> Scored(TRUE, <<1, 1>>, "reason")
      [] data.branch = "pattern" -> Scored(TRUE, <<9, 10>>, "reason")
      [] data.branch = "starter" -> Scored(TRUE, <<8, 10>>, "reason")
      [] data.branch = "overlap" -> Scored(TRUE, <<8, 10>>, "reason")
      [] data.branch = "ending" -> Scored(TRUE, <<7, 10>>, "reason")
      [] data.branch = "question word" -> Scored(TRUE, <<6, 10>>, "reason")
      [] data.branch = "skipped" -> Scored(TRUE, <<1, 1>>, "skipped")
      [] data.branch = "none" -> Scored(FALSE, <<0, 1>>, "reason")

\* the branches a rule with fixed scores has
Branches(id) ==
    CASE id = "U1" -> {"first", "starter", "ending", "question word", "none"}
      [] id \in {"R1", "D1", "P1", "A1"} -> {"first", "pattern", "none"}
      [] id = "P3" -> {"first", "overlap", "skipped", "none"}
      [] OTHER -> {"first", "none"}

FixedInputs ==
    {[kind |-> "fixed", id |-> pair[1], branch |-> pair[2]] :
        pair \in UNION {{<<id, branch>> : branch \in Branches(id)} :
                          id \in {"U1", "R1", "D1", "P1", "A1", "E1", "C1", "P3", "D4", "P4", "A3",
                                   "E2", "E3", "E4"}}}

\* numbers of words of the answers considered (around the limits 5, 20 and 50)
AnswerCounts == {0, 4, 5, 20, 21, 50, 51, 400}

\* counts of a word's repetitions considered (around U_MAX_WORD_REPEAT = 3)
RepeatCounts == {0, 1, 3, 4, 9}

\* the counts that the texts of a record give the rules: as many key concepts, and
\* as many found, as MaxConcepts allows; of the words of an answer some distinct
\* stems, of which some are in the passage; of its distinct trigrams some in the
\* passage
CountInputs ==
    {[kind |-> "universal", id |-> "U2", n_words |-> n, target_level |-> level] :
        n \in WordCounts, level \in BLOOM_LEVELS}
    \cup {[kind |-> "universal", id |-> "U3", n_concepts |-> n, n_found |-> k,
           target_level |-> level] :
            n \in 0 .. MaxConcepts, k \in 0 .. MaxConcepts, level \in BLOOM_LEVELS}
    \cup {[kind |-> "universal", id |-> "U4", text_len |-> len, most_common_count |-> count] :
            len \in {0, 4, 5}, count \in RepeatCounts}
    \cup {[kind |-> "structural", id |-> id, n_concepts |-> n, n |-> k] :
            id \in {"R2", "A2"}, n \in 0 .. MaxConcepts, k \in 0 .. MaxConcepts}
    \cup {[kind |-> "structural", id |-> id, n_words |-> n] :
            id \in {"R3", "C4"}, n \in AnswerCounts}
    \cup {[kind |-> "structural", id |-> "R4", n_stems |-> n, n_overlap |-> k] :
            n \in 0 .. MaxStems, k \in 0 .. MaxStems}
    \cup {[kind |-> "structural", id |-> "D2", n_words |-> n, n_ngrams |-> g, n_overlap |-> k] :
            n \in AnswerCounts, g \in 0 .. MaxStems, k \in 0 .. MaxStems}
    \cup {[kind |-> "structural", id |-> "A4", n_concepts |-> n, n_q |-> q, n_a |-> a] :
            n \in 0 .. MaxConcepts, q \in 0 .. MaxConcepts, a \in 0 .. MaxConcepts}
    \cup {[kind |-> "structural", id |-> "C3", n |-> n] : n \in 0 .. MaxConcepts}

\* the counts that texts can give: no more concepts found than there are (U3, R2, A2
\* and A4 search the key concepts; A4 searches the answer for those of the question),
\* no more stems or trigrams in the passage than the answer has
Consistent(data) ==
    CASE data.id \in {"U3"} -> data.n_found <= data.n_concepts
      [] data.id \in {"R2", "A2"} -> data.n <= data.n_concepts
      [] data.id = "R4" -> data.n_overlap <= data.n_stems
      [] data.id = "D2" ->
            /\ data.n_overlap <= data.n_ngrams
            /\ IF data.n_words < 3 THEN data.n_ngrams = 0
               ELSE data.n_ngrams >= 1 /\ data.n_ngrams <= data.n_words - 2
      [] data.id = "A4" -> data.n_q <= data.n_concepts /\ data.n_a <= data.n_q
      [] OTHER -> TRUE

\* the records given to the semantic rules, and what nli_predict does in the call
NliInputs ==
    {[kind |-> "nli", id |-> id, question |-> "Q", passage |-> passage, answer |-> answer,
      predicted |-> predicted] :
        id \in {<<"D", "3">>, <<"P", "2">>, <<"C", "2">>}, passage \in {"", "P"},
        answer \in {"", "A"},
        predicted \in {[raises |-> FALSE, scores |-> scores] : scores \in Predictions}
                       \cup {[raises |-> TRUE, scores |-> <<>>]}}

\* IsQuestion.TASK_STARTERS (universal.py lines 24-28)
TASK_STARTERS ==
    << <<"e", "v", "a", "l", "u", "a", "t", "e">>,
       <<"a", "s", "s", "e", "s", "s">>,
       <<"c", "r", "i", "t", "i", "q", "u", "e">>,
       <<"j", "u", "d", "g", "e">>,
       <<"a", "r", "g", "u", "e">>,
       <<"d", "e", "f", "e", "n", "d">>,
       <<"d", "e", "s", "i", "g", "n">>,
       <<"d", "e", "v", "e", "l", "o", "p">>,
       <<"p", "r", "o", "p", "o", "s", "e">>,
       <<"c", "o", "n", "s", "t", "r", "u", "c", "t">>,
       <<"f", "o", "r", "m", "u", "l", "a", "t", "e">>,
       <<"c", "r", "e", "a", "t", "e">>,
       <<"d", "e", "v", "i", "s", "e">>,
       <<"p", "l", "a", "n">>,
       <<"c", "o", "m", "p", "o", "s", "e">>,
       <<"s", "y", "n", "t", "h", "e", "s", "i", "z", "e">> >>

\* IsQuestion.RESPONSE_ENDINGS (universal.py lines 31-37)
RESPONSE_ENDINGS ==
    << <<"y", "o", "u", "r", " ", "a", "r", "g", "u", "m", "e", "n", "t">>,
       <<"y", "o", "u", "r", " ", "p", "o", "s", "i", "t", "i", "o", "n">>,
       <<"y", "o", "u", "r", " ", "r", "e", "s", "p", "o", "n", "s", "e">>,
       <<"y", "o", "u", "r", " ", "r", "e", "a", "s", "o", "n", "i", "n", "g">>,
       <<"y", "o", "u", "r", " ", "a", "n", "s", "w", "e", "r">>,
       <<"y", "o", "u", "r", " ", "a", "n", "a", "l", "y", "s", "i", "s">>,
       <<"y", "o", "u", "r", " ", "v", "i", "e", "w">>,
       <<"y", "o", "u", "r", " ", "o", "p", "i", "n", "i", "o", "n">>,
       <<"y", "o", "u", "r", " ", "s", "t", "a", "n", "c", "e">>,
       <<"t", "h", "e", " ", "p", "a", "s", "s", "a", "g", "e">>,
       <<"f", "r", "o", "m", " ", "t", "h", "e", " ", "p", "a", "s", "s", "a", "g", "e">>,
       <<"b", "a", "s", "e", "d", " ", "o", "n", " ", "t", "h", "e", " ", "p", "a", "s", "s", "a", "g", "e">>,
       <<"w", "i", "t", "h", " ", "e", "v", "i", "d", "e", "n", "c", "e">>,
       <<"w", "i", "t", "h", " ", "e", "x", "a", "m", "p", "l", "e", "s">> >>

\* question_words (universal.py lines 63-64)
question_words ==
    << <<"h", "o", "w">>,
       <<"w", "h", "y">>,
       <<"w", "h", "a", "t">>,
       <<"w", "h", "i", "c", "h">>,
       <<"w", "h", "e", "n">>,
       <<"w", "h", "e", "r", "e">>,
       <<"w", "h", "o">>,
       <<"c", "a", "n">>,
       <<"c", "o", "u", "l", "d">>,
       <<"w", "o", "u", "l", "d">>,
       <<"s", "h", "o", "u", "l", "d">>,
       <<"d", "o", "e", "s">>,
       <<"d", "o">>,
       <<"i", "s">> >>

\* str.strip() and str.rstrip(chars): the characters that Python takes for blanks
Blanks == {" ", "\t", "\n"}

strip(text) ==
    LET kept == {k \in 1 .. Len(text) : text[k] \notin Blanks}
    IN  IF kept = {} THEN <<>>
        ELSE SubSeq(text, CHOOSE k \in kept : \A j \in kept : k <= j,
                          CHOOSE k \in kept : \A j \in kept : k >= j)

rstrip(text, ch) ==
    LET kept == {k \in 1 .. Len(text) : text[k] # ch}
    IN  IF kept = {} THEN <<>>
        ELSE SubSeq(text, 1, CHOOSE k \in kept : \A j \in kept : k >= j)

\* str.startswith and str.endswith
startswith(text, prefix) ==
    Len(prefix) <= Len(text) /\ SubSeq(text, 1, Len(prefix)) = prefix

str_endswith(text, suffix) ==
    Len(suffix) <= Len(text) /\ SubSeq(text, Len(text) - Len(suffix) + 1, Len(text)) = suffix

\* the characters of \w
WordChars ==
    Range(Upper) \cup Range(Lower) \cup {"0", "1", "2", "3", "4", "5", "6", "7", "8", "9", "_"}

\* re.search(rf'\b{word}\b', text) for a word made of letters
search_word(word, text) ==
    \E start \in 1 .. (Len(text) - Len(word) + 1) :
        /\ SubSeq(text, start, start + Len(word) - 1) = word
        /\ start = 1 \/ text[start - 1] \notin WordChars
        /\ start + Len(word) - 1 = Len(text) \/ text[start + Len(word)] \notin WordChars

\* U1 with the response endings tried before the task starters
IsQuestion_EndingFirst(data) ==
    LET text == strip(data.question)
        text_lower == lower(text)
    IN  IF text = <<>> THEN Scored(FALSE, <<0, 1>>, "Empty question")
        ELSE IF str_endswith(text, <<"?">>) THEN Scored(TRUE, <<1, 1>>, "Ends with '?'")
        ELSE IF \E k \in 1 .. Len(RESPONSE_ENDINGS) :
                    str_endswith(rstrip(text_lower, "."), RESPONSE_ENDINGS[k])
        THEN Scored(TRUE, <<7, 10>>, "Response-request ending")
        ELSE IF \E k \in 1 .. Len(TASK_STARTERS) : startswith(text_lower, TASK_STARTERS[k])
        THEN Scored(TRUE, <<8, 10>>, "Task prompt")
        ELSE IF \E k \in 1 .. Len(question_words) : search_word(question_words[k], text_lower)
        THEN Scored(TRUE, <<6, 10>>, "Contains question word")
        ELSE Scored(FALSE, <<0, 1>>, "no task/question structure found")

\* IsQuestion.check (universal.py lines 39-71)
IsQuestion_on(data) ==
    LET text == strip(data.question)
        text_lower == lower(text)
    IN  IF text = <<>> THEN Scored(FALSE, <<0, 1>>, "Empty question")
        ELSE IF str_endswith(text, <<"?">>) THEN Scored(TRUE, <<1, 1>>, "Ends with '?'")
        ELSE IF \E k \in 1 .. Len(TASK_STARTERS) : startswith(text_lower, TASK_STARTERS[k])
        THEN Scored(TRUE, <<8, 10>>, "Task prompt")
        ELSE IF \E k \in 1 .. Len(RESPONSE_ENDINGS) :
                    str_endswith(rstrip(text_lower, "."), RESPONSE_ENDINGS[k])
        THEN Scored(TRUE, <<7, 10>>, "Response-request ending")
        ELSE IF \E k \in 1 .. Len(question_words) : search_word(question_words[k], text_lower)
        THEN Scored(TRUE, <<6, 10>>, "Contains question word")
        ELSE Scored(FALSE, <<0, 1>>, "no task/question structure found")

\* the questions given to U1: ending with "?", "!" and ".", with and without a
\* question word, empty and blank, with a starter and an ending at once, with a
\* starter inside a longer word ("plan" in "planets"), a question word inside a
\* longer word ("who" in "whoever"), in capitals, with spaces around it
IsQuestionTexts ==
    { <<"W", "h", "a", "t", " ", "i", "s", " ", "p", "h", "o", "t", "o", "s", "y", "n", "t", "h", "e", "s", "i", "s", "?">>,
      <<"W", "h", "a", "t", " ", "i", "s", " ", "p", "h", "o", "t", "o", "s", "y", "n", "t", "h", "e", "s", "i", "s", "!">>,
      <<"W", "h", "a", "t", " ", "i", "s", " ", "p", "h", "o", "t", "o", "s", "y", "n", "t", "h", "e", "s", "i", "s", ".">>,
      <<"D", "e", "s", "c", "r", "i", "b", "e", " ", "p", "h", "o", "t", "o", "s", "y", "n", "t", "h", "e", "s", "i", "s", ".">>,
      <<>>,
      <<" ", " ">>,
      <<"E", "v", "a", "l", "u", "a", "t", "e", " ", "y", "o", "u", "r", " ", "a", "n", "s", "w", "e", "r">>,
      <<"J", "u", "s", "t", "i", "f", "y", " ", "y", "o", "u", "r", " ", "a", "n", "s", "w", "e", "r", ".", ".", ".">>,
      <<" ", "W", "h", "y", "?", " ">>,
      <<"D", "e", "s", "i", "g", "n", " ", "i", "t", "?">>,
      <<"E", "x", "p", "l", "a", "i", "n", " ", "w", "h", "y", ",", " ", "i", "n", " ", "y", "o", "u", "r", " ", "v", "i", "e", "w", ".">>,
      <<"P", "l", "a", "n", "e", "t", "s", " ", "o", "r", "b", "i", "t", " ", "s", "t", "a", "r", "s", ".">>,
      <<"W", "h", "o", "e", "v", "e", "r", " ", "d", "i", "d", " ", "t", "h", "i", "s", ".">>,
      <<"D", "E", "S", "I", "G", "N", " ", "A", " ", "T", "E", "S", "T", ".">>,
      <<"S", "t", "a", "t", "e", " ", "t", "h", "e", " ", "r", "u", "l", "e", "!">>,
      <<"T", "e", "l", "l", " ", "m", "e", " ", "W", "H", "Y", "!">> }

\* the QuestionData of a question given to U1, which reads the question only
IsQuestionInputs == {[kind |-> "question", question |-> question] : question \in IsQuestionTexts}

RuleInputs ==
    TextInputs \cup {data \in CountInputs : Consistent(data)} \cup FixedInputs \cup NliInputs
    \cup IsQuestionInputs \cup UnlistedInputs

\* ConstraintResult of the rule `id` from what check() returned
Returns(id, result) == [id |-> id, passed |-> result.passed, score |-> result.score,
                        details |-> result.details]

CheckAdversarialVocabulary ==
    /\ pc = "check"
    /\ rule_data.kind \in {"text", "unlisted"}
    /\ rule_result' = Returns("AV", AdversarialVocabulary_on(rule_data))
    /\ pc' = "checked"
    /\ UNCHANGED rule_data
    /\ UNCHANGED outsideRule

CheckAdversarialNoTargetVocab ==
    /\ pc = "check"
    /\ rule_data.kind \in {"text", "unlisted"}
    /\ rule_result' = Returns("AN", AdversarialNoTargetVocab_on(rule_data))
    /\ pc' = "checked"
    /\ UNCHANGED rule_data
    /\ UNCHANGED outsideRule

CheckIsQuestion ==
    /\ pc = "check"
    /\ rule_data.kind = "question"
    /\ rule_result' = Returns("U1", IsQuestion_on(rule_data))
    /\ pc' = "checked"
    /\ UNCHANGED rule_data
    /\ UNCHANGED outsideRule

CheckUniversal ==
    /\ pc = "check"
    /\ rule_data.kind = "universal"
    /\ rule_result' = Returns(rule_data.id, universal_check(rule_data))
    /\ pc' = "checked"
    /\ UNCHANGED rule_data
    /\ UNCHANGED outsideRule

CheckStructural ==
    /\ pc = "check"
    /\ rule_data.kind = "structural"
    /\ rule_result' = Returns(rule_data.id, structural_check(rule_data))
    /\ pc' = "checked"
    /\ UNCHANGED rule_data
    /\ UNCHANGED outsideRule

CheckFixed ==
    /\ pc = "check"
    /\ rule_data.kind = "fixed"
    /\ rule_result' = Returns(rule_data.id, fixed_check(rule_data))
    /\ pc' = "checked"
    /\ UNCHANGED rule_data
    /\ UNCHANGED outsideRule

\* D3, P2, C2: the score in hundredths as a fraction
CheckSemantic ==
    /\ pc = "check"
    /\ rule_data.kind = "nli"
    /\ LET result == semantic_check(rule_data.id, rule_data, rule_data.predicted)
       IN  rule_result' = [id |-> "semantic", passed |-> result.passed,
                           score |-> <<result.score, 100>>, details |-> result.details]
    /\ pc' = "checked"
    /\ UNCHANGED rule_data
    /\ UNCHANGED outsideRule

\* evaluate.py lines 51-57: check() raised, the Evaluator builds the error result
CheckRaises ==
    /\ pc = "check"
    /\ rule_result' = [id |-> "error", passed |-> FALSE, score |-> <<0, 1>>, details |-> "Error: "]
    /\ pc' = "checked"
    /\ UNCHANGED rule_data
    /\ UNCHANGED outsideRule

InitRules ==
    /\ pc = "check"
    /\ rule_data \in RuleInputs
    /\ rule_result = <<>>
    /\ NoRun
    /\ NoGen
    /\ NoGap
    /\ NoBoot
    /\ NoReg
    /\ NoWorkers
    /\ NoNli

NextRules ==
    \/ CheckAdversarialVocabulary
    \/ CheckIsQuestion
    \/ CheckAdversarialNoTargetVocab
    \/ CheckUniversal
    \/ CheckStructural
    \/ CheckFixed
    \/ CheckSemantic
    \/ CheckRaises

SpecRules == InitRules /\ [][NextRules]_vars

(***************************************************************************)
(* generation/generate.py generate_for_model, one visit of its loops at a  *)
(* time, then evaluate_generations on the file it saved.  The file found   *)
(* at the start is the one an earlier, interrupted call for the same model *)
(* and mode left: a record of it is the visit it was generated for (`at`,  *)
(* a position in Visits) and whether the call of the model failed          *)
(* (`error`).  The model's answer is a question or none.                   *)
(***************************************************************************)
\* generate.py lines 213-217
levels_of(mode) ==
    IF mode = "standard" THEN [k \in 1 .. 6 |-> k]
    ELSE [k \in 1 .. Len(ADVERSARIAL_PAIRINGS) |-> ADVERSARIAL_PAIRINGS[k][1]]

\* the passages of the corpus
Passages == [k \in 1 .. MaxPassages |-> [passage_id |-> <<"p", k>>, subject |-> "biology"]]

\* `for passage in passages: for level in levels`
Visits(mode) ==
    [k \in 1 .. MaxPassages * Len(levels_of(mode)) |->
        [passage |-> Passages[((k - 1) \div Len(levels_of(mode))) + 1],
         level |-> levels_of(mode)[((k - 1) % Len(levels_of(mode))) + 1]]]

\* lines 254-269: the record of a visit, for what extract_qa found
RecordOf(visit, mode, question) ==
    Generation(visit.passage.passage_id, visit.passage.subject, visit.level, mode, question,
               IF Falsy(question) THEN OnEmpty(visit.level, mode, VocabOf(visit.level, mode))
               ELSE Nominal(visit.level, mode, VocabOf(visit.level, mode)))

\* the resume that keeps the errored records of the file as well
existing_of_KeepErrors(file) == file

\* lines 201-211: `existing`, the records of the file that have no error, in the
\* order of the file (the keys of a file that this function wrote are distinct)
existing_of(file) ==
    LET ok(r) == ~r.error IN SelectSeq(file, ok)

\* lines 201-221: the file is read and `generations = list(existing.values())`
Resume ==
    /\ pc = "resume"
    /\ generations' = [k \in 1 .. Len(existing_of(gen_file)) |->
                          RecordOf(Visits(gen_mode)[existing_of(gen_file)[k].at], gen_mode, "Q")]
    /\ pc' = "generate"
    /\ UNCHANGED <<genVars, i, evaluated, n_pass, checks, saved, metrics, built>>
    /\ UNCHANGED outsideGen

\* lines 235-237: the key of the visit is in `existing`
InExisting(visit) ==
    \E k \in 1 .. Len(existing_of(gen_file)) :
        LET r == Visits(gen_mode)[existing_of(gen_file)[k].at]
        IN  /\ r.passage.passage_id = visit.passage.passage_id
            /\ r.level = visit.level

\* lines 235-237: `continue` for a visit that the file already has
SkipExisting ==
    /\ pc = "generate"
    /\ gen_todo # <<>>
    /\ InExisting(Head(gen_todo))
    /\ gen_todo' = Tail(gen_todo)
    /\ UNCHANGED <<pc, gen_mode, gen_file, gen_calls, runVars>>
    /\ UNCHANGED outsideGen

\* lines 239-270: the prompt is built (`continue` without a pairing), the model
\* called, the record appended
GenerateRecord(question) ==
    /\ pc = "generate"
    /\ gen_todo # <<>>
    /\ ~InExisting(Head(gen_todo))
    /\ gen_todo' = Tail(gen_todo)
    /\ IF gen_mode # "standard" /\ get_adversarial_pairing(Head(gen_todo).level) = NoLevel
       THEN UNCHANGED <<generations, gen_calls>>
       ELSE /\ generations' = Append(generations, RecordOf(Head(gen_todo), gen_mode, question))
            /\ gen_calls' = Append(gen_calls, Head(gen_todo))
    /\ UNCHANGED <<pc, gen_mode, gen_file, i, evaluated, n_pass, checks, saved, metrics, built>>
    /\ UNCHANGED outsideGen

\* lines 289-290: the file is saved; evaluate_generations is then given it
SaveGenerations ==
    /\ pc = "generate"
    /\ gen_todo = <<>>
    /\ pc' = "loop"
    /\ UNCHANGED <<genVars, runVars>>
    /\ UNCHANGED outsideGen

\* the files that an earlier call which made the first visits can have left
Files(errors) ==
    UNION {{[k \in 1 .. resumed |-> [at |-> k, error |-> flags[k]]] :
                flags \in [1 .. resumed -> errors]} : resumed \in 0 .. MaxResume}

\* a call of generate_for_model in a mode, on no file or on the file of an earlier
\* call, with or without errored records
StartGen(files) ==
    /\ pc = "resume"
    /\ gen_mode \in Modes
    /\ gen_todo = Visits(gen_mode)
    /\ gen_file \in files
    /\ gen_calls = <<>>
    /\ generations = <<>>
    /\ i = 0
    /\ evaluated = <<>>
    /\ n_pass = 0
    /\ checks = <<>>
    /\ saved = "none"
    /\ metrics = "none"
    /\ built = <<>>
    /\ NoGap
    /\ NoBoot
    /\ NoReg
    /\ NoWorkers
    /\ NoNli
    /\ NoRule

\* generate_for_model on a file of an earlier call none of whose calls of the model
\* failed, then the evaluation of the file it saves
InitGen == StartGen(Files({FALSE}))

NextGen ==
    \/ Resume
    \/ SkipExisting
    \/ \E question \in {"Q", NoneStr} : GenerateRecord(question)
    \/ SaveGenerations
    \/ Evaluate
    \/ Save
    \/ ComputeMetrics

SpecGen == InitGen /\ [][NextGen]_vars

\* generate_for_model on a file some of whose records are errored
InitResume == StartGen(Files(BOOLEAN))

NextResume ==
    \/ Resume
    \/ SkipExisting
    \/ \E question \in {"Q", NoneStr} : GenerateRecord(question)
    \/ SaveGenerations

SpecResume == InitResume /\ [][NextResume]_vars

(***************************************************************************)
(* constraints/registry.py as a program on list objects: get_constraints   *)
(* reads the lists of the registry and returns a list; its callers keep    *)
(* the lists they got and may change them (evaluate.py and prompts.py only *)
(* read them).  A list is an address in `heap`.                            *)
(***************************************************************************)
\* LEVEL_CONSTRAINTS.get(level, []): the address of the level's list, 0 for the new
\* empty list of the default
level_at(level) ==
    CASE level = 1 -> At("REMEMBER_CONSTRAINTS")
      [] level = 2 -> At("LEVEL_CONSTRAINTS[2]")
      [] level = 3 -> At("LEVEL_CONSTRAINTS[3]")
      [] level = 4 -> At("ANALYZE_CONSTRAINTS")
      [] level = 5 -> At("EVALUATE_CONSTRAINTS")
      [] level = 6 -> At("LEVEL_CONSTRAINTS[6]")
      [] OTHER -> 0

\* list.extend(items) on the list at `at`
extend(h, at, items) == [h EXCEPT ![at] = @ \o items]

\* registry.py lines 40-54 on the list `constraints` at `at`
select_into(h, at, level, mode) ==
    LET level_specific == IF level_at(level) = 0 THEN <<>> ELSE h[level_at(level)]
        kept(c) == ~(endswith(c.constraint_id, "1") /\ c.tier = "structural")
    IN  CASE mode = "standard" -> extend(h, at, level_specific)
          [] mode = "adversarial" ->
                LET appended == extend(h, at, SelectSeq(level_specific, kept))
                IN  extend(appended, at, appended[At("ADVERSARIAL_CONSTRAINTS")])
          [] OTHER -> h

\* get_constraints with `constraints = UNIVERSAL_CONSTRAINTS` for its line 38
get_constraints_on_NoCopy(h, level, mode) ==
    [heap |-> select_into(h, At("UNIVERSAL_CONSTRAINTS"), level, mode),
     at |-> At("UNIVERSAL_CONSTRAINTS")]

\* get_constraints (registry.py lines 28-56): the heap after the call and the list
\* returned; line 38, list(UNIVERSAL_CONSTRAINTS), makes a new list
get_constraints_on(h, level, mode) ==
    LET copied == Append(h, h[At("UNIVERSAL_CONSTRAINTS")])
    IN  [heap |-> select_into(copied, Len(copied), level, mode), at |-> Len(copied)]

\* the levels and modes get_constraints is called with: the six levels, one that
\* the registry does not have, the two modes and another string
RegLevels == BLOOM_LEVELS \cup {7}
RegModes == Modes \cup {"other"}

\* a rule object that is in no list of the registry
Foreign == Rule("X", "9", "foreign")

\* a call of get_constraints and its return
GetConstraints(level, mode) ==
    /\ pc = "registry"
    /\ Len(reg_calls) < MaxRegCalls
    /\ LET returned == get_constraints_on(heap, level, mode)
       IN  /\ heap' = returned.heap
           /\ reg_calls' = Append(reg_calls,
                  [level |-> level, mode |-> mode, at |-> returned.at,
                   ids |-> [k \in 1 .. Len(returned.heap[returned.at]) |->
                               returned.heap[returned.at][k].constraint_id]])
    /\ UNCHANGED pc
    /\ UNCHANGED outsideReg

\* a caller changes a list that get_constraints returned to it: list.clear()
ClearReturned(k) ==
    /\ pc = "registry"
    /\ heap[reg_calls[k].at] # <<>>
    /\ heap' = [heap EXCEPT ![reg_calls[k].at] = <<>>]
    /\ UNCHANGED <<pc, reg_calls>>
    /\ UNCHANGED outsideReg

\* a caller changes a list that get_constraints returned to it: list.append(rule)
AppendReturned(k) ==
    /\ pc = "registry"
    /\ Foreign \notin Range(heap[reg_calls[k].at])
    /\ heap' = [heap EXCEPT ![reg_calls[k].at] = Append(@, Foreign)]
    /\ UNCHANGED <<pc, reg_calls>>
    /\ UNCHANGED outsideReg

InitRegistry ==
    /\ pc = "registry"
    /\ NoReg
    /\ NoWorkers
    /\ NoRun
    /\ NoGen
    /\ NoGap
    /\ NoBoot
    /\ NoNli
    /\ NoRule

NextRegistry ==
    \/ \E level \in RegLevels, mode \in RegModes : GetConstraints(level, mode)
    \/ \E k \in 1 .. Len(reg_calls) : ClearReturned(k)
    \/ \E k \in 1 .. Len(reg_calls) : AppendReturned(k)

SpecRegistry == InitRegistry /\ [][NextRegistry]_vars

(***************************************************************************)
(* Claims                                                                  *)
(***************************************************************************)
IdsOf(cs) == [k \in 1 .. Len(cs) |-> cs[k].constraint_id]

\* the generations whose record has been appended to `evaluated`
Done == 1 .. Len(evaluated)

\* the generations of Done that went through evaluate_question
Judged == {k \in Done : ~Falsy(generations[k].question)}

\* a level's vocabulary rule id, as the specification names it
VocabId(level) ==
    CASE level = 1 -> <<"R", "1">> [] level = 2 -> <<"D", "1">> [] level = 3 -> <<"P", "1">>
      [] level = 4 -> <<"A", "1">> [] level = 5 -> <<"E", "1">> [] level = 6 -> <<"C", "1">>

UniversalIds == << <<"U", "1">>, <<"U", "2">>, <<"U", "3">>, <<"U", "4">> >>

SelectorOk(level, mode, ids) ==
    /\ Len(ids) >= 4
    /\ SubSeq(ids, 1, 4) = UniversalIds
    /\ mode = "standard" =>
        /\ VocabId(level) \in Range(ids)
        /\ <<"A", "V">> \notin Range(ids)
        /\ <<"A", "N">> \notin Range(ids)
    /\ mode = "adversarial" =>
        /\ VocabId(level) \notin Range(ids)
        /\ <<"A", "V">> \in Range(ids)
        /\ <<"A", "N">> \in Range(ids)

\* C1: for every level and both modes the selection starts with U1, U2, U3, U4; in
\* standard mode it holds the level's vocabulary rule and neither AV nor AN; in
\* adversarial mode it holds AV and AN and not the level's vocabulary rule.  Stated
\* of get_constraints and of the rules evaluate_question ran for each generation.
C1_SelectorMembership ==
    /\ \A level \in BLOOM_LEVELS, mode \in Modes :
            SelectorOk(level, mode, IdsOf(get_constraints(level, mode)))
    /\ \A k \in Judged :
            SelectorOk(generations[k].level, generations[k].mode, IdsOf(checks[k]))

C1_Witness ==
    \E k \in Judged :
        /\ generations[k].mode = "adversarial"
        /\ generations[k].level = 4
        /\ <<"A", "V">> \in Range(IdsOf(checks[k]))
        /\ Len(evaluated[k].constraints) = Len(checks[k])

\* the list cs without the rules whose id is `id`
Without(cs, id) == SelectSeq(cs, LAMBDA c : c.constraint_id # id)

AdversarialOk(level, adversarial) ==
    LET standard == get_constraints(level, "standard") IN
    /\ adversarial = Without(standard, VocabId(level)) \o ADVERSARIAL_CONSTRAINTS
    /\ Len(Without(standard, VocabId(level))) = Len(standard) - 1
    /\ IdsOf(ADVERSARIAL_CONSTRAINTS) = << <<"A", "V">>, <<"A", "N">> >>

\* C2: for every level the adversarial list is the standard list of the level with
\* exactly one rule removed, the level's vocabulary rule, the others kept in order,
\* and AV then AN appended
C2_AdversarialIsStandardMinusVocab ==
    /\ \A level \in BLOOM_LEVELS : AdversarialOk(level, get_constraints(level, "adversarial"))
    /\ \A k \in Judged :
            generations[k].mode = "adversarial" => AdversarialOk(generations[k].level, checks[k])

C2_Witness ==
    \E k \in Judged :
        /\ generations[k].mode = "adversarial"
        /\ generations[k].level = 2
        /\ <<"D", "3">> \in Range(IdsOf(checks[k]))
        /\ <<"D", "1">> \notin Range(IdsOf(checks[k]))

\* the structural set of a level (structural.py) and its semantic rule, as the
\* specification names them
StructuralIds(level) ==
    CASE level = 1 -> IdsOf(REMEMBER_CONSTRAINTS) [] level = 2 -> IdsOf(UNDERSTAND_CONSTRAINTS)
      [] level = 3 -> IdsOf(APPLY_CONSTRAINTS) [] level = 4 -> IdsOf(ANALYZE_CONSTRAINTS)
      [] level = 5 -> IdsOf(EVALUATE_CONSTRAINTS) [] level = 6 -> IdsOf(CREATE_CONSTRAINTS)

SemanticIds(level) ==
    CASE level = 2 -> << <<"D", "3">> >> [] level = 3 -> << <<"P", "2">> >>
      [] level = 6 -> << <<"C", "2">> >> [] OTHER -> <<>>

StandardOk(level, standard) ==
    /\ IdsOf(standard) = UniversalIds \o StructuralIds(level) \o SemanticIds(level)
    /\ Len(standard) >= 7
    /\ \A k \in 1 .. Len(standard) :
            standard[k].tier =
                IF k <= 4 THEN "universal"
                ELSE IF k <= 4 + Len(StructuralIds(level)) THEN "structural" ELSE "semantic"

\* C3: in standard mode the selection is the four universal rules, then the level's
\* structural set, then its semantic rule (D3 for level 2, P2 for level 3, C2 for
\* level 6, none for levels 1, 4 and 5): at least 7 rules
C3_StandardSelection ==
    /\ \A level \in BLOOM_LEVELS : StandardOk(level, get_constraints(level, "standard"))
    /\ \A k \in Judged :
            generations[k].mode = "standard" => StandardOk(generations[k].level, checks[k])

C3_Witness ==
    \E k \in Judged :
        /\ generations[k].mode = "standard"
        /\ generations[k].level = 3
        /\ IdsOf(checks[k])[Len(checks[k])] = <<"P", "2">>

\* the rules selected for generation k
Selected(k) == get_constraints(generations[k].level, generations[k].mode)

\* C4: an exception raised by a selected rule never leaves evaluate_question (every
\* generation whose rules ran has its record); the rule contributes a result with
\* passed false, score 0, its own id and tier and an "Error: " rationale, and every
\* rule of the list is run and reported, those after it included
C4_RuleErrorIsolated ==
    /\ Len(checks) = Len(evaluated)
    /\ \A k \in Judged :
        /\ checks[k] = Selected(k)
        /\ Len(evaluated[k].constraints) = Len(Selected(k))
        /\ \A j \in 1 .. Len(Selected(k)) :
            /\ evaluated[k].constraints[j].id = Selected(k)[j].constraint_id
            /\ generations[k].outcomes[Selected(k)[j]].raises =>
                  evaluated[k].constraints[j] =
                      [id |-> Selected(k)[j].constraint_id, passed |-> FALSE, score |-> 0,
                       details |-> "Error: ", tier |-> Selected(k)[j].tier]

C4_Witness ==
    \E k \in Judged :
        \E j \in 1 .. Len(Selected(k)) - 1 :
            /\ generations[k].outcomes[Selected(k)[j]].raises
            /\ ~generations[k].outcomes[Selected(k)[j + 1]].raises
            /\ evaluated[k].constraints[j].details = "Error: "
            /\ evaluated[k].constraints[j + 1].passed

\* C5: a generation whose question is empty or absent gets the record "all
\* constraints failed" (no constraint result, all_passed false, pass_rate 0, the
\* evaluation error) and no rule's check() is called for it
C5_EmptyQuestionShortCircuit ==
    \A k \in 1 .. Len(checks) :
        Falsy(generations[k].question) =>
            /\ checks[k] = <<>>
            /\ k \in Done
            /\ evaluated[k].constraints = <<>>
            /\ ~evaluated[k].all_passed
            /\ evaluated[k].pass_rate = 0
            /\ evaluated[k].evaluation_error = "No question generated"

C5_Witness ==
    \E k \in Done :
        /\ generations[k].question = NoneStr
        /\ evaluated[k].evaluation_error = "No question generated"
        /\ checks[k] = <<>>

\* the records of the batch that have a question
WithQuestion == Cardinality(Judged)

\* C6: a record whose question is empty or absent counts as a failure in the
\* prompt-level strict rate and in the prompt-level loose rate: neither counts
\* more passes than there are records with a question
C6_EmptyQuestionNeverPasses ==
    pc = "done" =>
        /\ metrics.prompt_level_strict.n_pass <= WithQuestion
        /\ metrics.prompt_level_loose.n_pass <= WithQuestion

\* C7: one evaluated record per generation, in input order, each with exactly one
\* result per selected rule, in selector order, with the rule's id and tier and a
\* reason
C7_CompleteResultSet ==
    /\ pc \in {"returned", "done"} => Len(evaluated) = Len(generations)
    /\ \A k \in Done :
        /\ evaluated[k].passage_id = generations[k].passage_id
        /\ evaluated[k].level = generations[k].level
        /\ evaluated[k].mode = generations[k].mode
        /\ evaluated[k].question = generations[k].question
        /\ Len(evaluated[k].constraints) = Len(Selected(k))
        /\ \A j \in 1 .. Len(evaluated[k].constraints) :
            /\ evaluated[k].constraints[j].id = Selected(k)[j].constraint_id
            /\ evaluated[k].constraints[j].tier = Selected(k)[j].tier
            /\ evaluated[k].constraints[j].details # ""

\* the records whose all_passed is set, and those that pass loosely
StrictPasses == {k \in Done : evaluated[k].all_passed}
LoosePasses == {k \in Done : \A j \in 1 .. Len(evaluated[k].constraints) :
                                  evaluated[k].constraints[j].score >= 50}

\* all_passed is set exactly for the judged records in which every constraint passed
AllPassedMeans ==
    \A k \in Done :
        evaluated[k].all_passed <=>
            /\ k \in Judged
            /\ \A j \in 1 .. Len(evaluated[k].constraints) : evaluated[k].constraints[j].passed

\* rate (ten-thousandths) is num / den exactly
IsQuotient(rate, num, den) == rate * den = 10000 * num

\* rate (ten-thousandths) is num / den to the nearest ten-thousandth
IsRounded(rate, num, den) ==
    /\ 2 * (rate * den - 10000 * num) <= den
    /\ 2 * (10000 * num - rate * den) <= den

\* C8 as stated: n records, n_pass fully passing records, rate = n_pass / n
C8_StrictRateExact ==
    pc = "done" =>
        /\ metrics.prompt_level_strict.n = Len(evaluated)
        /\ metrics.prompt_level_strict.n_pass = Cardinality(StrictPasses)
        /\ IsQuotient(metrics.prompt_level_strict.rate,
                      metrics.prompt_level_strict.n_pass, metrics.prompt_level_strict.n)

\* C8 (amended): the prompt-level strict result has n the number of records, n_pass
\* the number of records in which every constraint passed, 0 <= n_pass <= n, and
\* rate = n_pass / n rounded to 4 decimals (seven of ten give 0.7)
C8_StrictRateRounded ==
    pc = "done" =>
        /\ AllPassedMeans
        /\ metrics.prompt_level_strict.n = Len(evaluated)
        /\ metrics.prompt_level_strict.n_pass = Cardinality(StrictPasses)
        /\ 0 <= metrics.prompt_level_strict.n_pass
        /\ metrics.prompt_level_strict.n_pass <= metrics.prompt_level_strict.n
        /\ IsRounded(metrics.prompt_level_strict.rate,
                     metrics.prompt_level_strict.n_pass, metrics.prompt_level_strict.n)
        /\ (metrics.prompt_level_strict.n = 10 /\ metrics.prompt_level_strict.n_pass = 7)
              => metrics.prompt_level_strict.rate = 7000

C8_Witness ==
    /\ pc = "done"
    /\ metrics.prompt_level_strict.n = 10
    /\ metrics.prompt_level_strict.n_pass = 7
    /\ metrics.prompt_level_strict.rate = 7000

\* C9 as stated: the loose rate is the fraction of records whose every score >= 0.5
C9_LooseRateExact ==
    pc = "done" =>
        IsQuotient(metrics.prompt_level_loose.rate, Cardinality(LoosePasses), Len(evaluated))

\* C9 (amended): the prompt-level loose rate is the fraction of records in which every
\* constraint result has score >= 0.5, whatever the passed flags, rounded to 4 decimals
C9_LooseRateRounded ==
    pc = "done" =>
        /\ metrics.prompt_level_loose.n = Len(evaluated)
        /\ metrics.prompt_level_loose.n_pass = Cardinality(LoosePasses)
        /\ IsRounded(metrics.prompt_level_loose.rate, Cardinality(LoosePasses), Len(evaluated))

\* a failed result of score exactly 0.5 (AN) in a record counted as a loose pass, and
\* a passed result of score below 0.5 in a record counted as a loose failure
C9_Witness ==
    /\ pc = "done"
    /\ \E k \in LoosePasses : \E j \in 1 .. Len(evaluated[k].constraints) :
        /\ evaluated[k].constraints[j].id = <<"A", "N">>
        /\ ~evaluated[k].constraints[j].passed
        /\ evaluated[k].constraints[j].score = 50
    /\ \E k \in StrictPasses : k \notin LoosePasses
    /\ metrics.prompt_level_loose.n_pass = 1
    /\ metrics.prompt_level_loose.n = 3

\* sum of f[x] over the domain of f
RECURSIVE SumOver(_, _)
SumOver(f, D) ==
    IF D = {} THEN 0 ELSE LET x == CHOOSE y \in D : TRUE IN f[x] + SumOver(f, D \ {x})

SumTotal(by) == SumOver([x \in DOMAIN by |-> by[x].n_total], DOMAIN by)
SumPass(by) == SumOver([x \in DOMAIN by |-> by[x].n_pass], DOMAIN by)

\* number of constraint results of the batch, and of those with P
NumResults == SumSeq([k \in Done |-> Len(evaluated[k].constraints)])
NumResultsPassed == SumSeq([k \in Done |-> NumPassed(evaluated[k].constraints)])
NumResultsLoose ==
    SumSeq([k \in Done |->
        Cardinality({j \in 1 .. Len(evaluated[k].constraints) :
                        evaluated[k].constraints[j].score >= 50})])

StdDone == pc \in {"adv_metrics", "gap", "row", "listed", "crashed"}
AdvDone == pc \in {"gap", "row", "listed", "crashed"}
GapDone == pc \in {"row", "listed", "crashed"}

MetricEntries ==
    {"prompt_level_strict", "prompt_level_loose",
     "constraint_level_strict", "constraint_level_loose"}

\* the metric entries are present, with rate 0 and n 0
ZeroShaped(m) ==
    /\ MetricEntries \subseteq DOMAIN m
    /\ \A key \in MetricEntries : m[key].rate = 0 /\ m[key].n = 0

\* C11: compute_metrics over zero records returns a zero-shaped result (the metric
\* entries present with rate 0 and n 0), and compute_adversarial_gap applied to such
\* results yields gap 0 overall and at every level
C11_EmptyMetricsZeroShaped ==
    /\ (StdDone /\ std_evals = <<>>) => ZeroShaped(std_metrics)
    /\ (AdvDone /\ adv_evals = <<>>) => ZeroShaped(adv_metrics)
    /\ (GapDone /\ std_evals = <<>> /\ adv_evals = <<>>) =>
        /\ gap_data.overall_gap = 0
        /\ \A level \in BLOOM_LEVELS : gap_data.by_level[level].gap = 0

\* the strict prompt-level rate of a list of records, 0 for no record
StrictRateOf(evals) ==
    IF evals = <<>> THEN 0
    ELSE Round4(Cardinality({k \in 1 .. Len(evals) : evals[k].all_passed}), Len(evals))

\* the strict prompt-level rate of the records of a level, 0 for no record
LevelRateOf(evals, level) ==
    StrictRateOf(SelectSeq(evals, LAMBDA e : e.level = level))

\* C12: overall_gap is the standard strict prompt-level rate minus the adversarial
\* one (negative when the adversarial rate is higher), the gap of each of the six
\* levels is taken the same way round, and the same metrics given for both
\* arguments yield gap 0 overall and at each of the six levels
C12_GapIsStandardMinusAdversarial ==
    GapDone =>
        /\ gap_data.standard_rate = StrictRateOf(std_evals)
        /\ gap_data.adversarial_rate = StrictRateOf(adv_evals)
        /\ gap_data.overall_gap = StrictRateOf(std_evals) - StrictRateOf(adv_evals)
        /\ DOMAIN gap_data.by_level = BLOOM_LEVELS
        /\ \A level \in BLOOM_LEVELS :
              gap_data.by_level[level].gap =
                  LevelRateOf(std_evals, level) - LevelRateOf(adv_evals, level)
        /\ std_metrics = adv_metrics =>
              /\ gap_data.overall_gap = 0
              /\ \A level \in BLOOM_LEVELS : gap_data.by_level[level].gap = 0

\* rates 0.8 and 0.3 give the gap 0.5
C12_Witness ==
    /\ GapDone
    /\ gap_data.standard_rate = 8000
    /\ gap_data.adversarial_rate = 3000
    /\ gap_data.overall_gap = 5000

\* ---------------------------------------------------------------------------
\* C13 (bootstrap reproducibility): whatever calls ran before it or run
\* interleaved with it, a call of _bootstrap_ci returns the bounds that the
\* function of its input alone gives, so the same observations always get the
\* same (ci_low, ci_high); the generator is created inside the call, from SEED,
\* and a caller that is not in a call holds no generator.
C13_BootstrapReproducible ==
    /\ \A r \in ci_results :
          /\ r.ci_low = _bootstrap_ci(r.values).ci_low
          /\ r.ci_high = _bootstrap_ci(r.values).ci_high
    /\ \A r1, r2 \in ci_results :
          r1.values = r2.values => r1.ci_low = r2.ci_low /\ r1.ci_high = r2.ci_high
    /\ \A w \in Callers :
          /\ frames[w].pc = "idle" => frames[w] = IdleFrame
          /\ (frames[w].pc = "loop" /\ frames[w].boot_means = <<>>)
                => frames[w].seeded /\ frames[w].rng = RandomState(SEED)

\* a resampled result is there while another call on the same observations is in
\* the middle of its loop
C13_Witness ==
    /\ n_calls = MaxCalls
    /\ \E r \in ci_results, w \in Callers :
          /\ Len(r.values) >= 2
          /\ r.seeded
          /\ r.ci_low # r.ci_high
          /\ frames[w].pc = "loop"
          /\ frames[w].values = r.values
          /\ frames[w].boot_means # <<>>

\* ---------------------------------------------------------------------------
\* C14 (fewer than two observations): a call of _bootstrap_ci with a single
\* observation returns ci_low = ci_high = that observation, a call with none
\* returns ci_low = ci_high = 0, and neither creates a generator nor resamples.
C14_FewObservationsCollapse ==
    /\ \A r \in ci_results :
          Len(r.values) < 2 =>
            /\ r.ci_low = r.ci_high
            /\ r.ci_low = IF r.values = <<>> THEN <<0, 1>>
                           ELSE IF r.values[1] THEN <<1, 1>> ELSE <<0, 1>>
            /\ ~r.seeded
            /\ r.n_resamples = 0
    /\ \A w \in Callers : frames[w].pc = "loop" => Len(frames[w].values) >= 2

\* a call with no observation and a call with a single pass returned
C14_Witness ==
    /\ \E r \in ci_results : r.values = <<>> /\ r.ci_low = <<0, 1>>
    /\ \E r \in ci_results : r.values = <<TRUE>> /\ r.ci_high = <<1, 1>>

\* ---------------------------------------------------------------------------
\* C15 (NLI model singleton): over any sequence of calls of D3, P2 and C2, one
\* after the other, from_pretrained returns a model at most once; it does so in a
\* call that needs the model and finds none, every earlier call that needed it
\* having raised while loading (with loads that do not fail, the first call that
\* needs the model); every forward pass of that call and of the later calls goes
\* through that same instance, and a call of a rule that skips loads nothing.
C15_ModelConstructedOnce ==
    /\ loads.model <= 1
    /\ _nli_model.id = loads.model
    /\ \A k \in 1 .. Len(nli_calls) :
          /\ nli_calls[k].constructed =>
                /\ nli_calls[k].needs
                /\ nli_calls[k].found = 0
                /\ \A j \in 1 .. (k - 1) :
                      /\ ~nli_calls[j].constructed
                      /\ nli_calls[j].needs => nli_calls[j].raises /\ nli_calls[j].used = 0
          /\ nli_calls[k].used \in {0, 1}
          /\ ~nli_calls[k].raises /\ nli_calls[k].needs => nli_calls[k].used = 1
          /\ \A j \in 1 .. (k - 1) :
                nli_calls[j].constructed =>
                    /\ nli_calls[k].found = 1
                    /\ ~nli_calls[k].constructed
          /\ (\A j \in 1 .. (k - 1) : ~nli_calls[j].needs) /\ nli_calls[k].needs
                => nli_calls[k].constructed \/ nli_calls[k].raises

\* the rule that constructed the model, then another rule served by the same model
C15_Witness ==
    /\ Len(nli_calls) = 2
    /\ nli_calls[1].constructed /\ nli_calls[1].used = 1
    /\ nli_calls[2].needs /\ ~nli_calls[2].constructed /\ nli_calls[2].used = 1
    /\ nli_calls[1].rule # nli_calls[2].rule
    /\ loads.model = 1

\* a call of a semantic rule whose call of nli_predict raised returned a failure
\* with score 0
RaisedFailsClosed ==
    \A k \in 1 .. Len(nli_calls) :
        nli_calls[k].raises =>
            /\ ~nli_calls[k].result.passed
            /\ nli_calls[k].result.score = 0
            /\ nli_calls[k].result.details = "NLI error: "
            /\ nli_calls[k].result.tier = "semantic"

\* the results of the other tiers are those of a working backend
OtherTiersUnchanged ==
    /\ Len(sem_results) = Len(WithWorkingBackend(sem_input))
    /\ \A k \in 1 .. Len(sem_results) :
          sem_results[k].tier # "semantic" => sem_results[k] = WithWorkingBackend(sem_input)[k]

\* C16 as stated: a semantic rule whose NLI call raises returns passed = false with
\* score 0 after its single attempt, and with a backend that is never there every
\* semantic-tier result of every record is a failure while the results of the other
\* tiers are those of a working backend.
C16_BackendDownAllSemanticFail ==
    /\ RaisedFailsClosed
    /\ (backend = "down" /\ pc = "returned") =>
          /\ \A k \in 1 .. Len(sem_results) :
                sem_results[k].tier = "semantic" => ~sem_results[k].passed
          /\ OtherTiersUnchanged

\* C16 (semantic failure fails closed): a semantic rule whose NLI call raises
\* returns passed = false with score 0 after its single attempt, and with a backend
\* that is never there every semantic-tier result of a record that has a passage and
\* the rule's text (answer for D3 and C2, question for P2) is such a failure, the
\* semantic rule of a record without them is skipped as passed, and the results of
\* the other tiers are those of a working backend.
C16_FailClosed ==
    /\ RaisedFailsClosed
    /\ (backend = "down" /\ pc = "returned") =>
          /\ \A k \in 1 .. Len(sem_results) :
                sem_results[k].tier = "semantic" =>
                    IF needs_nli(sem_results[k].id, sem_input)
                    THEN ~sem_results[k].passed /\ sem_results[k].score = 0
                    ELSE sem_results[k].passed /\ sem_results[k].details = "skipped"
          /\ OtherTiersUnchanged
    /\ \A n \in 1 .. n_records, id \in {<<"D", "3">>, <<"P", "2">>, <<"C", "2">>} :
          Cardinality({k \in 1 .. Len(nli_calls) :
                          nli_calls[k].record = n /\ nli_calls[k].rule = id}) <= 1

\* with the backend down, the last record returned with its semantic rule failed on
\* an NLI error and a rule of another tier failed as it does with a working backend
C16_Witness ==
    /\ backend = "down"
    /\ pc = "returned"
    /\ n_records = MaxRecords
    /\ \E k \in 1 .. Len(sem_results) :
          /\ sem_results[k].tier = "semantic"
          /\ sem_results[k].details = "NLI error: "
    /\ \E k \in 1 .. Len(sem_results) :
          /\ sem_results[k].tier # "semantic"
          /\ ~sem_results[k].passed
    /\ \A k \in 1 .. Len(nli_calls) : nli_calls[k].needs /\ nli_calls[k].raises

\* ---------------------------------------------------------------------------
\* C17 (score range): the ConstraintResult that a rule returns, whatever the texts,
\* key concepts, level and mode, and the error result that the Evaluator builds
\* when a rule raises, have 0 <= score <= 1.
C17_ScoreInUnitInterval ==
    pc = "checked" =>
        /\ rule_result.score[2] > 0
        /\ 0 <= rule_result.score[1]
        /\ rule_result.score[1] <= rule_result.score[2]

\* a capped score at its cap: an answer of 400 words for C4
C17_Witness ==
    /\ pc = "checked"
    /\ rule_data.kind = "structural"
    /\ rule_result.id = "C4"
    /\ rule_data.n_words = 400
    /\ rule_result.score = <<1, 1>>

\* the lower-cased question has a verb of the level's wordlist somewhere in it
HasVerbOf(question, level) ==
    \E verb \in Range(BLOOM_VERBS(level)) :
        \E from \in 1 .. Len(question), to \in 1 .. Len(question) :
            SubSeq(lower(question), from, to) = verb

\* "List the steps."
ListQuestion ==
    <<"L", "i", "s", "t", " ", "t", "h", "e", " ", "s", "t", "e", "p", "s", ".">>

\* ---------------------------------------------------------------------------
\* C19 (adversarial vocabulary rules): in adversarial mode with vocab_level set, AV
\* passes, with score 1.0, iff the question contains a verb of the vocab_level
\* wordlist and fails with score 0 otherwise; AN passes, with score 1.0, iff the
\* question contains no verb of the target_level wordlist and fails with score 0.5
\* otherwise; a target-4/vocab-1 question with "list" and no Analyze verb passes
\* both.  A verb is contained when it occurs in the lower-cased question, inside a
\* longer word or not.
C19_AdversarialVocabularyRules ==
    (/\ pc = "checked"
     /\ rule_data.kind = "text"
     /\ rule_data.mode = "adversarial"
     /\ rule_data.vocab_level # NoLevel) =>
        /\ rule_result.id = "AV" =>
              /\ rule_result.passed <=> HasVerbOf(rule_data.question, rule_data.vocab_level)
              /\ rule_result.score = IF rule_result.passed THEN <<1, 1>> ELSE <<0, 1>>
        /\ rule_result.id = "AN" =>
              /\ rule_result.passed <=> ~HasVerbOf(rule_data.question, rule_data.target_level)
              /\ rule_result.score = IF rule_result.passed THEN <<1, 1>> ELSE <<1, 2>>
        /\ (/\ rule_result.id \in {"AV", "AN"}
            /\ rule_data.target_level = 4
            /\ rule_data.vocab_level = 1
            /\ contains(lower(rule_data.question), <<"l", "i", "s", "t">>)
            /\ ~HasVerbOf(rule_data.question, 4)) =>
              rule_result.passed /\ rule_result.score = <<1, 1>>

\* AN on "List the steps." for target level 4 with the vocabulary of level 1
C19_Witness ==
    /\ pc = "checked"
    /\ rule_data.kind = "text"
    /\ rule_data.mode = "adversarial"
    /\ rule_data.question = ListQuestion
    /\ rule_data.target_level = 4
    /\ rule_data.vocab_level = 1
    /\ rule_result.id = "AN"
    /\ rule_result.passed

C18_RecordInvariant ==
    \A k \in 1 .. Len(built) :
        /\ built[k].target_level \in 1 .. 6
        /\ built[k].mode = gen_mode
        /\ built[k].mode = "standard" => built[k].vocab_level = NoLevel
        /\ built[k].mode = "adversarial" =>
              \E p \in 1 .. Len(ADVERSARIAL_PAIRINGS) :
                  ADVERSARIAL_PAIRINGS[p] = <<built[k].target_level, built[k].vocab_level>>

\* the six records of an adversarial file evaluated, the pairing (1, 4) last, one of
\* them from the file that the generation resumed from
C18_Witness ==
    /\ pc = "done"
    /\ gen_mode = "adversarial"
    /\ Len(built) = 6
    /\ built[6].target_level = 1
    /\ built[6].vocab_level = 4
    /\ Len(checks) = 6

\* what U1 looks for in a question: "?" at the end of the stripped text, a task-style
\* opener at its start, a response-requested ending (full stops aside) at its end,
\* an interrogative word anywhere in it
EndsWithQuestionMark(question) == str_endswith(strip(question), <<"?">>)

HasTaskOpener(question) ==
    \E starter \in Range(TASK_STARTERS) : startswith(lower(strip(question)), starter)

HasResponseEnding(question) ==
    \E ending \in Range(RESPONSE_ENDINGS) :
        str_endswith(rstrip(lower(strip(question)), "."), ending)

HasInterrogativeWord(question) ==
    \E word \in Range(question_words) : search_word(word, lower(strip(question)))

C22_NoQuestionMarkFails ==
    (/\ pc = "checked"
     /\ rule_data.kind = "question"
     /\ rule_result.id = "U1"
     /\ \/ str_endswith(strip(rule_data.question), <<".">>)
        \/ str_endswith(strip(rule_data.question), <<"!">>)) =>
        ~rule_result.passed

\* ---------------------------------------------------------------------------
\* C23 (no key concepts is a skip): when the record's key_concepts list is empty,
\* each of U3, R2, A2 and A4 passes with score 1.0 and a "skipped" rationale, whatever
\* the other inputs of the rule are.
C23_NoConceptsSkipped ==
    (/\ pc = "checked"
     /\ rule_data.kind \in {"universal", "structural"}
     /\ rule_result.id \in {"U3", "R2", "A2", "A4"}
     /\ rule_data.n_concepts = 0) =>
        /\ rule_result.passed
        /\ rule_result.score = <<1, 1>>
        /\ rule_result.details = "skipped"

\* A2, which with key concepts needs two of them in the texts, on a record without
\* key concepts
C23_Witness ==
    /\ pc = "checked"
    /\ rule_data.kind = "structural"
    /\ rule_result.id = "A2"
    /\ rule_data.n_concepts = 0
    /\ rule_result.details = "skipped"

\* ---------------------------------------------------------------------------
\* C24 (loose is never stricter): every result with passed = true has score >= 0.5,
\* so every record that passes strictly passes loosely, and the prompt-level and
\* constraint-level loose rates are never below the strict ones.
C24_LooseNeverStricter ==
    (pc = "done" /\ Len(evaluated) > 0) =>
        /\ \A k \in Done : \A j \in 1 .. Len(evaluated[k].constraints) :
              evaluated[k].constraints[j].passed => evaluated[k].constraints[j].score >= 50
        /\ StrictPasses \subseteq LoosePasses
        /\ metrics.prompt_level_loose.rate >= metrics.prompt_level_strict.rate
        /\ metrics.constraint_level_loose.rate >= metrics.constraint_level_strict.rate

\* ---------------------------------------------------------------------------
\* C25 (get_constraints leaves the registry alone): every call returns a list that
\* is neither a list of the registry nor a list returned before; the lists of the
\* registry stay as they were at import; and two calls with the same level and mode
\* return the same ordered ids, whatever calls and changes of returned lists came
\* between them.
C25_RegistryUnchanged ==
    pc = "registry" =>
        /\ SubSeq(heap, 1, Len(Registry)) = Registry
        /\ \A k \in 1 .. Len(reg_calls) :
              /\ reg_calls[k].at > Len(Registry)
              /\ \A j \in 1 .. (k - 1) : reg_calls[j].at # reg_calls[k].at
              /\ \A j \in 1 .. (k - 1) :
                    (reg_calls[j].level = reg_calls[k].level
                        /\ reg_calls[j].mode = reg_calls[k].mode)
                    => reg_calls[j].ids = reg_calls[k].ids

\* two adversarial calls for level 2 with the list of the first call cleared
\* between them
C25_Witness ==
    /\ pc = "registry"
    /\ Len(reg_calls) = 2
    /\ reg_calls[1].level = 2 /\ reg_calls[1].mode = "adversarial"
    /\ reg_calls[2].level = 2 /\ reg_calls[2].mode = "adversarial"
    /\ heap[reg_calls[1].at] = <<>>
    /\ Len(reg_calls[2].ids) = 9
    /\ heap[reg_calls[2].at] # <<>>

\* ---------------------------------------------------------------------------
\* C26 (no partially initialised model): every model that get_nli_model returns was
\* moved to the device and put in eval mode; after an initialisation that failed
\* part-way, a later call initialises again or fails again, and never returns the
\* model that the failed attempt left.
C26_ReturnedModelInitialised ==
    \A k \in 1 .. Len(nli_calls) :
        /\ nli_calls[k].used # 0 =>
              /\ _nli_model.id = nli_calls[k].used
              /\ _nli_model.moved
              /\ _nli_model.eval
        /\ (/\ nli_calls[k].needs
            /\ \A j \in 1 .. (k - 1) : nli_calls[j].needs => nli_calls[j].used = 0) =>
              nli_calls[k].constructed \/ nli_calls[k].raises

\* the workers that saw _nli_model unset and are initialising it
Initialising == {w \in Callers : nli_frames[w].pc \in {"tokenizer", "model", "to", "eval"}}

\* ---------------------------------------------------------------------------
\* C27 (one model for concurrent workers): when two workers of one process call
\* get_nli_model at the same time, no interleaving lets both see the model unset
\* and both construct it: the model is constructed once and every worker gets that
\* one.
C27_ConstructedOnceConcurrently ==
    pc = "workers" =>
        /\ Cardinality(Initialising) <= 1
        /\ loads.model <= 1
        /\ \A w \in Callers : nli_frames[w].model \in {0, 1}

\* the records of `generations` for a visit, and the calls of the model for it
RecordsFor(visit) ==
    {k \in 1 .. Len(generations) :
        /\ generations[k].passage_id = visit.passage.passage_id
        /\ generations[k].level = visit.level
        /\ generations[k].mode = gen_mode}

CallsFor(visit) == {k \in 1 .. Len(gen_calls) : gen_calls[k] = visit}

\* ---------------------------------------------------------------------------
\* C28 (one record per visit after a resume): when generate_for_model has saved its
\* file, the generations hold exactly one record for every (passage, level) of the
\* run and no two records with the same (passage_id, level, mode); a record of the
\* resumed file that had no error is kept and the model is not called for it; an
\* errored record of the resumed file is not kept, and the model is called once for
\* its visit.
C28_OneRecordPerVisit ==
    (pc = "loop" /\ gen_mode # "none") =>
        /\ \A v \in 1 .. Len(Visits(gen_mode)) :
              Cardinality(RecordsFor(Visits(gen_mode)[v])) = 1
        /\ \A j, k \in 1 .. Len(generations) :
              (/\ generations[j].passage_id = generations[k].passage_id
               /\ generations[j].level = generations[k].level
               /\ generations[j].mode = generations[k].mode) => j = k
        /\ \A r \in 1 .. Len(gen_file) :
              IF gen_file[r].error
              THEN Cardinality(CallsFor(Visits(gen_mode)[gen_file[r].at])) = 1
              ELSE CallsFor(Visits(gen_mode)[gen_file[r].at]) = {}
        /\ Len(generations) = Len(existing_of(gen_file)) + Len(gen_calls)

\* a file saved after a resume from a file with a successful and an errored record
C28_Witness ==
    /\ pc = "loop"
    /\ gen_mode = "adversarial"
    /\ Len(gen_file) = 2
    /\ ~gen_file[1].error
    /\ gen_file[2].error
    /\ Len(generations) = 6
    /\ Len(gen_calls) = 5
    /\ i = 0

\* ---------------------------------------------------------------------------
\* C29 (AV and AN skip what does not concern them): on an adversarial record whose
\* vocab_level is None or names a level without verb list, AV passes with score 1.0
\* and a "skipped" rationale whatever the question is; on a record whose mode is not
\* adversarial, AV and AN pass with score 1.0.
C29_AdversarialSkips ==
    (/\ pc = "checked"
     /\ rule_data.kind \in {"text", "unlisted"}
     /\ rule_result.id \in {"AV", "AN"}) =>
        /\ (/\ rule_result.id = "AV"
            /\ rule_data.mode = "adversarial"
            /\ rule_data.vocab_level \notin BLOOM_LEVELS) =>
              /\ rule_result.passed
              /\ rule_result.score = <<1, 1>>
              /\ rule_result.details = "skipped"
        /\ rule_data.mode # "adversarial" =>
              /\ rule_result.passed
              /\ rule_result.score = <<1, 1>>

\* AV on the adversarial record of "Why does it fall?", which has no verb of a
\* wordlist, without vocab_level
C29_Witness ==
    /\ pc = "checked"
    /\ rule_data.kind = "text"
    /\ rule_result.id = "AV"
    /\ rule_data.mode = "adversarial"
    /\ rule_data.vocab_level = NoLevel
    /\ rule_data.question = <<"W", "h", "y", " ", "d", "o", "e", "s", " ", "i", "t", " ", "f", "a", "l", "l", "?">>
    /\ rule_result.details = "skipped"

\* ---------------------------------------------------------------------------
\* C30 (a file without generations): evaluate_generations on a file with zero
\* generations writes the evaluation file with n_evaluated 0 and prompt_pass_rate 0
\* and returns the empty list, without raising.
C30_EmptyFileCompletes ==
    (generations = <<>> /\ pc # "loop") =>
        /\ pc \in {"returned", "done"}
        /\ saved.n_evaluated = 0
        /\ saved.prompt_pass_rate = <<0, 1>>
        /\ evaluated = <<>>

====
